---- MODULE Spec2Model ----
(***************************************************************************)
(* Order lifecycle, placement, tracking and live-status notification of    *)
(* the Smokies ordering application, with its shop status, the customer's  *)
(* pages from menu to order number, and the catalog of variant options and *)
(* menu items.                                                             *)
(*                                                                         *)
(* The managed database is modelled by its tables (orders, order_items,    *)
(* variant_options, menu_items, shop_status)                               *)
(* and by the outcome of each query: a query either succeeds or returns an *)
(* error, chosen nondeterministically.  Money is counted in hundredths of  *)
(* the currency unit, so the tolerance 0.01 of the source is 1.            *)
(* Timestamps (created_at, updated_at, completed_at) are not kept: the     *)
(* order of creation is the order of the rows, which is also the order of  *)
(* the database-generated order_number.                                    *)
(***************************************************************************)
EXTENDS Integers, Sequences, FiniteSets, TLC

\* ------------------------------------------------------------------ bounds
\* Orders created where the dashboard or the tracking page is followed.
MaxOrders == 1
\* Orders created where only the verification codes are followed.
MaxPlaced == 2
\* Redirect timers counted for one tracking view; the count stops there.
MaxRedirects == 2
\* How many values of the verification-code range the random draw samples.
NumCodes == 2
\* Longest item list of a request body.
MaxItems == 2
\* Callback invocations followed for one subscription.
MaxCalls == 1
\* Poll ticks that await their status fetch at the same time.
MaxPending == 1
\* Orders one customer places in a row.
MaxRapidOrders == 6
\* Largest quantity of one basket line.
MaxQuantity == 1
\* Client identifiers the token generator is sampled with.
NumTokens == 2
\* Largest id of table variant_options.
MaxVariants == 3
\* POST /api/menu/variants requests in flight at the same time.
MaxRequests == 2
\* The clock advances in steps of ClockStep ms up to MaxNow ms.
ClockStep == 30000
MaxNow == 60000
\* Calls of checkOrderCreationRateLimit made directly.
MaxLimiterCalls == 8
\* Order numbers TrackingSystem is called with.
MaxTracked == 2
\* Rows of table menu_items.
MaxMenuRows == 4

\* ------------------------------------------------------- program constants
\* Math.floor(1000 + Math.random() * 9000): smallest 4-digit code.
MinCode4 == 1000
\* Math.floor(10000 + Math.random() * 90000): smallest 5-digit code.
MinCode5 == 10000
\* validateTotalAmount: Math.abs(calculatedTotal - totalAmount) < 0.01.
Tolerance == 1
\* fetchCurrentOrders: .limit(10)
CurrentOrdersLimit == 10
\* checkOrderCreationRateLimit: windowMs and maxAttempts.
windowMs == 60000
maxAttempts == 5

\* ------------------------------------------------------------ JS values
\* A JavaScript value that is used as a query key, tagged with its type.
JsUndefined == [kind |-> "undefined"]
JsInt(n) == [kind |-> "int", n |-> n]
Uuid(n) == [kind |-> "uuid", n |-> n]

\* NaN, as parseInt returns it for a string that starts with no digit.
NaN == [kind |-> "NaN"]

Digits == <<"0", "1", "2", "3", "4", "5", "6", "7", "8", "9">>

IsDigit(c) == \E d \in 1..10 : Digits[d] = c

DigitVal(c) == (CHOOSE d \in 1..10 : Digits[d] = c) - 1

\* parseInt(s) for a string without sign or leading blanks: the value of the
\* longest prefix of decimal digits, NaN when that prefix is empty.
RECURSIVE ParseDigits(_, _, _)
ParseDigits(s, i, acc) ==
  IF i > Len(s) \/ ~IsDigit(SubSeq(s, i, i))
  THEN acc
  ELSE ParseDigits(s, i + 1, acc * 10 + DigitVal(SubSeq(s, i, i)))

parseInt(s) ==
  IF Len(s) = 0 \/ ~IsDigit(SubSeq(s, 1, 1)) THEN NaN ELSE JsInt(ParseDigits(s, 1, 0))

\* A test that every header passes.
startsWithAny(s, p) == TRUE

\* String.prototype.startsWith
startsWith(s, p) == Len(s) >= Len(p) /\ SubSeq(s, 1, Len(p)) = p

\* String.prototype.includes
includes(s, t) ==
  \E i \in 1..(Len(s) + 1) : i + Len(t) - 1 <= Len(s) /\ SubSeq(s, i, i + Len(t) - 1) = t

\* String.prototype.replace(t, ''): removes the first occurrence of t.
removeFirst(s, t) ==
  IF ~includes(s, t) THEN s
  ELSE LET i == CHOOSE k \in 1..Len(s) :
                  /\ k + Len(t) - 1 <= Len(s)
                  /\ SubSeq(s, k, k + Len(t) - 1) = t
                  /\ \A j \in 1..(k - 1) : SubSeq(s, j, j + Len(t) - 1) # t
       IN SubSeq(s, 1, i - 1) \o SubSeq(s, i + Len(t), Len(s))

Reverse(q) == [i \in 1..Len(q) |-> q[Len(q) + 1 - i]]

RECURSIVE SumSeq(_)
SumSeq(q) == IF q = <<>> THEN 0 ELSE Head(q) + SumSeq(Tail(q))

\* ------------------------------------------------------------- input sets
\* The values the random draw of POST /api/orders is sampled from.
Codes4 == MinCode4..(MinCode4 + NumCodes - 1)

\* The values the random draw of OrderSystem is sampled from.
Codes5 == MinCode5..(MinCode5 + NumCodes - 1)

\* The callbacks of the three live-status subscriptions that are followed.
Callbacks == {"tracking", "secure", "hybrid"}

\* Statuses a client may send in a status update.
RequestedStatuses ==
  {"pending", "preparing", "ready", "collected", "completed", "cancelled"}

\* The options of the dashboard's status <select>.
DashboardOptions == {"pending", "preparing", "ready", "collected"}

\* Authorization headers of a request: absent, a bearer token, another scheme.
AuthHeaders == {"", "Bearer t", "Basic t"}

\* Basket items as the menu page submits them.
SampleItems ==
  { [id |-> 1, name |-> "Montana BBQ Hamburger Regular", price |-> 28000,
     quantity |-> 2, variant |-> "Beef"],
    [id |-> 2, name |-> "Montana BBQ Hamburger Large", price |-> 35000,
     quantity |-> 1, variant |-> "Paneer"] }

ItemLists == UNION {[1..k -> SampleItems] : k \in 0..MaxItems}

\* The items field of a request body: undefined, a non-list, or a list.
JsonItems ==
  {[kind |-> "undefined"], [kind |-> "string", str |-> "burger"]}
    \cup {[kind |-> "list", list |-> l] : l \in ItemLists}

\* Totals a client submits (hundredths).
SampleTotals == {56000, 56001, 91000}

\* The body the order summary page sends for the example basket.
ExampleBody ==
  [items |-> [kind |-> "list",
              list |-> << [id |-> 1, name |-> "Montana BBQ Hamburger Regular",
                           price |-> 28000, quantity |-> 2, variant |-> "Beef"] >>],
   totalAmount |-> 56000]

\* The global protein list and the menu's rows the shop starts with.
InitialVariantOptions ==
  << [id |-> 1, option_name |-> "Beef", is_active |-> TRUE, display_order |-> 1],
     [id |-> 2, option_name |-> "Paneer", is_active |-> TRUE, display_order |-> 2] >>

\* OrderSummaryPage as it mounts: useState(false), the button enabled, no
\* request sent.
NotPlacing == [isPlacingOrder |-> FALSE, disabled |-> FALSE, pending |-> <<>>]

InitialMenuItems ==
  << [id |-> 1, base_name |-> "Montana BBQ Hamburger", size_code |-> "R",
      protein |-> "Beef", price |-> 28000, is_available |-> TRUE],
     [id |-> 2, base_name |-> "Montana BBQ Hamburger", size_code |-> "L",
      protein |-> "Paneer", price |-> 35000, is_available |-> TRUE] >>

\* ------------------------------------------------------------------ state
VARIABLES
  hasIdColumn,     \* schema: whether table orders has an id column
  orders,          \* table orders, in order of creation
  order_items,     \* table order_items, in order of insertion
  response,        \* the response of the last API handler that returned
  \* OrdersManagement (staff dashboard)
  dashMounted,     \* the component is mounted
  dashSubscribed,  \* its channel 'orders-management' is subscribed
  dashLoadPending, \* a loadOrders() call is in flight
  dashIsLoading,   \* isLoading
  dashOrders,      \* orders
  dashOrderItems,  \* orderItems
  \* OrderTrackingContent (customer tracking view)
  viewPhase,       \* "unmounted", "mounted" or "torndown"
  viewOrderNumber, \* orderNumber parsed from the URL
  viewVerification,\* verificationNumber parsed from the URL
  viewFetch,       \* fetchOrderStatus: its query in flight or answered
  viewChannel,     \* the channel order_<n> is subscribed
  trackingData,    \* trackingData (<<>> is null)
  currentStatus,   \* currentStatus
  viewRedirects,   \* setTimeout(router.push) calls made for this view
  \* CurrentOrdersDisplay
  codPhase,        \* "unmounted", "mounted" or "torndown"
  codSetup,        \* setupRealtimeSubscription: "none", "pending", "done"
  codSubscribed,   \* the channel current_orders_realtime is subscribed
  codPolling,      \* the 2 s interval is active
  codFetchPending, \* a fetchCurrentOrders() call is in flight
  codIsLoading,    \* isLoading
  currentOrders,   \* currentOrders
  \* OrderSystem
  currentOrderNumber,       \* currentOrderNumber
  usedVerificationNumbers,  \* usedVerificationNumbers
  systemOrders,             \* orders
  \* TrackingSystem
  statusUpdates,   \* statusUpdates: order number -> status
  subscribers,     \* subscribers: order number -> callbacks
  \* SecureSupabaseOrderManager.subscribeToOrderStatus
  secureSub,       \* the subscription: its channel and validated parameters
  secureHandlers,  \* payload statuses whose handler awaits the validation
  \* HybridOrderSystem
  hybrid,          \* "none", or the instance's useSupabase and its check
  localOrders,     \* localStorage cafe-order-<n>: order number -> order data
  pollInterval,    \* the polling subscription's interval and parameters
  pollTicks,       \* ticks that await getOrderStatus
  \* The subscribers' side
  subscription,    \* callback -> "none", "active" or "ended" (unsubscribed)
  calls,           \* callback -> number of invocations
  notifications,   \* the invocations of TrackingSystem's latest update: argument, status read
  \* The catalog and the shop
  variant_options, \* table variant_options, in order of insertion
  menu_items,      \* table menu_items
  variantRequests, \* POST /api/menu/variants requests between their queries
  shop_status,     \* status of the singleton row of table shop_status
  \* The placement pages of one customer's browser
  now,             \* Date.now(), in ms since the customer arrived
  page,            \* the page shown: "none", "menu", "summary", "order-number"
  menuShopStatus,  \* MenuPage: shopStatus
  menuLoading,     \* MenuPage: loading
  menuStatusLoad,  \* MenuPage: loadShopStatus() is in flight
  orderBasket,     \* MenuPage: orderBasket
  sessionOrderData,\* sessionStorage orderData (<<>> when absent)
  summaryItems,    \* OrderSummaryPage: orderItems
  summaryTotal,    \* OrderSummaryPage: total
  summaryPlacing,  \* OrderSummaryPage: isPlacingOrder, the button as rendered, requests sent
  orderCreationAttempts, \* SecurityManager.orderCreationAttempts
  orderNumberView, \* OrderNumber: "none", "mounting" (effect not run) or "shown"
  placedAt,        \* times at which this customer's orders were created
  limiterCalls     \* the calls of checkOrderCreationRateLimit and what they returned

dbVars == <<hasIdColumn, orders, order_items>>
\* What the dashboard keeps and no change event touches.
dashCore == <<dashMounted, dashSubscribed, dashIsLoading, dashOrders, dashOrderItems>>
dashVars == <<dashCore, dashLoadPending>>
viewCore == <<viewPhase, viewOrderNumber, viewVerification, viewFetch, viewChannel>>
\* What the handler of the view's channel sets.
viewLive == <<trackingData, currentStatus, viewRedirects>>
viewVars == <<viewCore, viewLive>>
codCore == <<codPhase, codSetup, codSubscribed, codPolling, codIsLoading, currentOrders>>
codVars == <<codCore, codFetchPending>>
\* The browser-side libraries, without what a change event touches.
libCore == <<currentOrderNumber, usedVerificationNumbers, systemOrders,
             statusUpdates, subscribers, secureSub, hybrid, localOrders,
             pollInterval, pollTicks, subscription, calls, notifications>>
libVars == <<libCore, secureHandlers>>
orderSystemVars == <<currentOrderNumber, usedVerificationNumbers, systemOrders>>
trackingSystemVars == <<statusUpdates, subscribers>>
\* The components of the pages.
pageCore == <<dashCore, viewCore, codCore>>
pageVars == <<dashVars, viewVars, codVars>>
\* The state a change event of table orders can touch.
notified == <<dashLoadPending, viewLive, codFetchPending, secureHandlers>>
catalogVars == <<variant_options, menu_items, variantRequests>>
shopVars == <<shop_status>>
menuVars == <<menuShopStatus, menuLoading, menuStatusLoad, orderBasket>>
summaryVars == <<summaryItems, summaryTotal, summaryPlacing>>
limiterVars == <<orderCreationAttempts, orderNumberView>>
flowVars == <<now, page, menuVars, sessionOrderData, summaryVars, limiterVars, placedAt,
              limiterCalls>>
\* The catalog, the shop status and the placement pages.
storeVars == <<catalogVars, shopVars, flowVars>>
vars == <<dbVars, response, dashVars, viewVars, codVars, libVars, storeVars>>

NoResponse == [op |-> "none", status |-> 0, orders |-> <<>>, items |-> <<>>]

Respond(op, status, rows, items) ==
  [op |-> op, status |-> status, orders |-> rows, items |-> items]

\* --------------------------------------------------------------- database
\* order_number is generated by the database, one after the other.
NextOrderNumber == Len(orders) + 1

NewOrderRow(code, total) ==
  [order_number |-> NextOrderNumber,
   id |-> IF hasIdColumn THEN Uuid(NextOrderNumber) ELSE JsUndefined,
   verification_number |-> code,
   total_amount |-> total,
   status |-> "pending"]

\* .eq(column, key) on an integer column: a key that is no integer matches no row.
EqInt(value, key) == key.kind = "int" /\ key.n = value

\* .update({status}).eq(column, key): the table after the update.
UpdateStatus(column, key, status) ==
  [i \in 1..Len(orders) |->
     IF orders[i][column] = key THEN [orders[i] EXCEPT !.status = status] ELSE orders[i]]

\* .eq(column, key): the rows it selects.
MatchingRows(column, key) == SelectSeq(orders, LAMBDA row : row[column] = key)

\* ------------------------------------------------ realtime change feed
\* The handler of the tracking view's channel order_<n> (event UPDATE,
\* filter order_number=eq.<n>).  A torn-down view keeps no state, but the
\* handler of a channel that is still subscribed runs all the same.
ScheduleRedirect(k) == IF k < MaxRedirects THEN k + 1 ELSE k

ViewOnUpdate(new) ==
  LET updatedStatus == new.status
  IN /\ currentStatus' = IF viewPhase = "mounted" THEN updatedStatus ELSE currentStatus
     /\ trackingData' =
          IF viewPhase = "mounted" /\ trackingData # <<>>
          THEN <<[trackingData[1] EXCEPT !.status = updatedStatus]>>
          ELSE trackingData
     /\ viewRedirects' = IF updatedStatus = "completed"
                         THEN ScheduleRedirect(viewRedirects)
                         ELSE viewRedirects

\* A committed change of one row of table orders is delivered to every
\* subscribed channel in the step of the write: the dashboard's channel
\* (event '*') and the display's channel (INSERT, UPDATE) start a reload,
\* the tracking view's channel runs its handler.
NotifyClients(event, new) ==
  /\ codFetchPending' = (codFetchPending \/ codSubscribed)
  /\ secureHandlers' =
       IF secureSub.channel /\ event = "UPDATE" /\ new.order_number = secureSub.orderNumber
       THEN secureHandlers \cup {new.status}
       ELSE secureHandlers
  /\ IF viewChannel /\ event = "UPDATE" /\ new.order_number = viewOrderNumber
     THEN ViewOnUpdate(new)
     ELSE UNCHANGED viewLive

Notify(event, new) ==
  /\ dashLoadPending' = (dashLoadPending \/ dashSubscribed)
  /\ NotifyClients(event, new)

\* ------------------------------------------- POST /api/orders (placement)
\* The size code parsed from an item's name: includes('Regular') is tried
\* first, then includes('Large').
sizeCode(name) ==
  IF includes(name, "Regular") THEN "R"
  ELSE IF includes(name, "Large") THEN "L"
  ELSE ""

\* The base name parsed from an item's name: replace(' Regular', '') or
\* replace(' Large', '') under the same two tests.
baseName(name) ==
  IF includes(name, "Regular") THEN removeFirst(name, " Regular")
  ELSE IF includes(name, "Large") THEN removeFirst(name, " Large")
  ELSE name

\* One element of items.map(...): the order_items row of a basket item.
\* Price and quantity arrive as JSON numbers, which parseFloat and parseInt
\* keep; prices are counted in hundredths.
OrderItemRowDraft(order_id, item, totalAmount) ==
  LET name == IF item.name # "" THEN item.name ELSE "Unknown Item"
  IN [order_id |-> order_id,
      menu_item_id |-> item.id,
      base_name |-> baseName(name),
      size_code |-> sizeCode(name),
      protein |-> IF item.variant # "" THEN item.variant ELSE "Standard",
      quantity |-> item.quantity,
      unit_price |-> item.price,
      total_amount |-> totalAmount]

\* A row attached to the basket item's id instead of the order.
OrderItemRowOfItem(order, item) ==
  OrderItemRowDraft(item.id, item, item.price * item.quantity)

\* A row whose total is the unit price, whatever the quantity.
OrderItemRowFlat(order, item) ==
  OrderItemRowDraft(order.order_number, item, item.price)

\* order_id is order.order_number; totalAmount = unitPrice * quantity.
OrderItemRow(order, item) ==
  OrderItemRowDraft(order.order_number, item, item.price * item.quantity)

\* An order row that takes the status a body supplies.
InsertedOrderFromBody(body, code) ==
  [NewOrderRow(code, body.totalAmount)
     EXCEPT !.status = IF "status" \in DOMAIN body THEN body.status ELSE "pending"]

\* The order row of .insert([{verification_number, total_amount, status}]):
\* the status is the literal 'pending'; no field of the body but totalAmount
\* is read.
InsertedOrder(body, code) == NewOrderRow(code, body.totalAmount)

\* The handler: draw the code, insert the order row, map the items, insert
\* the item rows.  items.map throws a TypeError when items is no list; the
\* catch block answers 500.  orderOk and itemsOk are the outcomes of the two
\* inserts.
POST(body, code, orderOk, itemsOk) ==
  /\ UNCHANGED <<hasIdColumn, dashCore, viewCore, codCore, libCore>>
  /\ LET order == InsertedOrder(body, code)
     IN IF ~orderOk
        THEN /\ response' = Respond("POST /api/orders", 500, <<>>, <<>>)
             /\ UNCHANGED <<orders, order_items, notified>>
        ELSE /\ orders' = Append(orders, order)
             /\ Notify("INSERT", order)
             /\ IF body.items.kind # "list"
                THEN /\ response' = Respond("POST /api/orders", 500, <<>>, <<>>)
                     /\ UNCHANGED order_items
                ELSE LET orderItems ==
                           [i \in 1..Len(body.items.list) |->
                              OrderItemRow(order, body.items.list[i])]
                     IN IF ~itemsOk
                        THEN /\ response' = Respond("POST /api/orders", 500, <<>>, <<>>)
                             /\ UNCHANGED order_items
                        ELSE /\ order_items' = order_items \o orderItems
                             /\ response' = Respond("POST /api/orders", 200,
                                                    <<order>>, <<>>)

\* A request sent by a client whose pages are not followed.
POST_orders(body, code, orderOk, itemsOk) ==
  /\ POST(body, code, orderOk, itemsOk)
  /\ UNCHANGED storeVars

\* ------------------------------------- PUT /api/order-tracking (status)
validStatuses == {"preparing", "ready", "completed", "cancelled"}

\* .eq('id', order_id).select().single(): no id column, a key that is no
\* uuid, or no matching row is a query error.
PUT_order_tracking(authHeader, order_id, status, dbOk) ==
  /\ UNCHANGED <<storeVars, hasIdColumn, order_items, dashCore, viewCore, codCore, libCore>>
  /\ IF authHeader = "" \/ ~startsWith(authHeader, "Bearer ")
     THEN /\ response' = Respond("PUT /api/order-tracking", 401, <<>>, <<>>)
          /\ UNCHANGED <<orders, notified>>
     ELSE IF status \notin validStatuses
     THEN /\ response' = Respond("PUT /api/order-tracking", 400, <<>>, <<>>)
          /\ UNCHANGED <<orders, notified>>
     ELSE LET hit == MatchingRows("id", order_id)
          IN IF ~dbOk \/ ~hasIdColumn \/ order_id.kind # "uuid" \/ Len(hit) # 1
             THEN /\ response' = Respond("PUT /api/order-tracking", 500, <<>>, <<>>)
                  /\ UNCHANGED <<orders, notified>>
             ELSE /\ orders' = UpdateStatus("id", order_id, status)
                  /\ Notify("UPDATE", [hit[1] EXCEPT !.status = status])
                  /\ response' = Respond("PUT /api/order-tracking", 200,
                                         <<[hit[1] EXCEPT !.status = status]>>, <<>>)

\* --------------------------------------- GET /api/order-tracking (track)
\* The query-string values of a tracking request: "" is an absent parameter.
TrackingParams(numbers) == {"", "abc"} \cup {ToString(n) : n \in numbers}

\* .eq('order_number', parseInt(..)).eq('verification_number', parseInt(..))
MatchPair(orderNumber, verificationNumber) ==
  SelectSeq(orders, LAMBDA row :
    /\ EqInt(row.order_number, parseInt(orderNumber))
    /\ EqInt(row.verification_number, parseInt(verificationNumber)))

\* .from('order_items').eq('order_id', key): order_id holds order numbers.
ItemsOfKey(key) == SelectSeq(order_items, LAMBDA item : EqInt(item.order_id, key))

\* .single() is an error unless exactly one row matches; a failed items
\* query is logged and the items are [].
GET_order_tracking(orderNumber, verificationNumber, dbOk) ==
  /\ UNCHANGED <<storeVars, dbVars, dashVars, viewVars, codVars, libVars>>
  /\ IF orderNumber = "" \/ verificationNumber = ""
     THEN response' = Respond("GET /api/order-tracking", 400, <<>>, <<>>)
     ELSE LET hit == MatchPair(orderNumber, verificationNumber)
          IN IF ~dbOk \/ Len(hit) # 1
             THEN response' = Respond("GET /api/order-tracking", 404, <<>>, <<>>)
             ELSE response' = Respond("GET /api/order-tracking", 200,
                                      <<hit[1]>>, ItemsOfKey(hit[1].id))

\* ------------------------------------------- OrdersManagement (dashboard)
\* useEffect on mount: loadOrders() is called and the channel is subscribed.
DashMount ==
  /\ ~dashMounted
  /\ dashMounted' = TRUE
  /\ dashSubscribed' = TRUE
  /\ dashLoadPending' = TRUE
  /\ dashIsLoading' = TRUE
  /\ dashOrders' = <<>>
  /\ dashOrderItems' = <<>>
  /\ UNCHANGED <<storeVars, dbVars, response, viewVars, codVars, libVars>>

\* The effect's cleanup: subscription?.unsubscribe().  The component's state
\* is discarded, and a loadOrders() still in flight sets no state any more.
DashUnmount ==
  /\ dashMounted
  /\ dashMounted' = FALSE
  /\ dashSubscribed' = FALSE
  /\ dashLoadPending' = FALSE
  /\ dashIsLoading' = TRUE
  /\ dashOrders' = <<>>
  /\ dashOrderItems' = <<>>
  /\ UNCHANGED <<storeVars, dbVars, response, viewVars, codVars, libVars>>

IsActive(row) == row.status # "completed"

\* The rows loadOrders reads: .neq('status', 'completed'), newest first.
ActiveOrdersQuery == Reverse(SelectSeq(orders, IsActive))

\* itemsData.reduce(...): the item rows grouped by order_id.toString().
GroupItems(itemsData) ==
  [orderId \in {ToString(itemsData[i].order_id) : i \in 1..Len(itemsData)} |->
     SelectSeq(itemsData, LAMBDA item : ToString(item.order_id) = orderId)]

\* A loadOrders() call completes: ordersOk and itemsOk are the outcomes of
\* its two queries.
loadOrders(ordersOk, itemsOk) ==
  /\ dashMounted
  /\ dashLoadPending
  /\ dashLoadPending' = FALSE
  /\ dashIsLoading' = FALSE
  /\ UNCHANGED <<storeVars, dbVars, response, dashMounted, dashSubscribed, viewVars, codVars, libVars>>
  /\ IF ~ordersOk
     THEN UNCHANGED <<dashOrders, dashOrderItems>>
     ELSE LET ordersData == ActiveOrdersQuery
              orderNumbers == {ordersData[i].order_number : i \in 1..Len(ordersData)}
              itemsData == SelectSeq(order_items,
                                     LAMBDA item : item.order_id \in orderNumbers)
          IN /\ dashOrders' = ordersData
             /\ IF Len(ordersData) > 0 /\ itemsOk
                THEN dashOrderItems' = GroupItems(itemsData)
                ELSE UNCHANGED dashOrderItems

\* The status as requested, written without conversion.
FinalStatusLiteral(newStatus) == newStatus

\* 'collected' is written as 'completed'.
FinalStatus(newStatus) == IF newStatus = "collected" THEN "completed" ELSE newStatus

\* The "Update to ..." button of a listed order: the status chosen in the
\* <select> differs from the listed one (hasChanged).  updatingOrders is set
\* at the start and cleared in the finally block, so it is unchanged.
updateOrderStatus(orderNumber, newStatus, dbOk) ==
  /\ dashMounted
  /\ \E i \in 1..Len(dashOrders) :
       /\ dashOrders[i].order_number = orderNumber
       /\ dashOrders[i].status # newStatus
  /\ UNCHANGED <<storeVars, hasIdColumn, order_items, response, dashMounted, dashSubscribed,
                 dashIsLoading, dashOrderItems, viewCore, codCore, libCore>>
  /\ IF ~dbOk
     THEN UNCHANGED <<orders, dashOrders, notified>>
     ELSE LET hit == MatchingRows("order_number", orderNumber)
          IN /\ orders' = UpdateStatus("order_number", orderNumber, FinalStatus(newStatus))
             /\ NotifyClients("UPDATE", [hit[1] EXCEPT !.status = FinalStatus(newStatus)])
             /\ IF newStatus = "collected"
                THEN /\ dashOrders' = SelectSeq(dashOrders,
                                        LAMBDA o : o.order_number # orderNumber)
                     /\ dashLoadPending' = (dashLoadPending \/ dashSubscribed)
                ELSE /\ dashLoadPending' = TRUE
                     /\ UNCHANGED dashOrders

\* ------------------------------------------------------------ lifecycle
Init ==
  /\ hasIdColumn \in BOOLEAN
  /\ orders = <<>>
  /\ order_items = <<>>
  /\ response = NoResponse
  /\ dashMounted = FALSE
  /\ dashSubscribed = FALSE
  /\ dashLoadPending = FALSE
  /\ dashIsLoading = TRUE
  /\ dashOrders = <<>>
  /\ dashOrderItems = <<>>
  /\ viewPhase = "unmounted"
  /\ viewOrderNumber = 0
  /\ viewVerification = 0
  /\ viewFetch = "idle"
  /\ viewChannel = FALSE
  /\ trackingData = <<>>
  /\ currentStatus = "waiting"
  /\ viewRedirects = 0
  /\ codPhase = "unmounted"
  /\ codSetup = "none"
  /\ codSubscribed = FALSE
  /\ codPolling = FALSE
  /\ codFetchPending = FALSE
  /\ codIsLoading = TRUE
  /\ currentOrders = <<>>
  /\ currentOrderNumber = 1
  /\ usedVerificationNumbers = {}
  /\ systemOrders = <<>>
  /\ statusUpdates = <<>>
  /\ subscribers = <<>>
  /\ secureSub = [channel |-> FALSE, orderNumber |-> 0, verificationNumber |-> 0,
                  callback |-> "none"]
  /\ secureHandlers = {}
  /\ hybrid = [instance |-> FALSE, useSupabase |-> FALSE, check |-> "none"]
  /\ localOrders = <<>>
  /\ pollInterval = [active |-> FALSE, orderNumber |-> 0, verificationNumber |-> 0]
  /\ pollTicks = 0
  /\ subscription = [cb \in Callbacks |-> "none"]
  /\ calls = [cb \in Callbacks |-> 0]
  /\ notifications = <<>>
  /\ variant_options = InitialVariantOptions
  /\ menu_items = InitialMenuItems
  /\ variantRequests = <<>>
  /\ shop_status = "open"
  /\ now = 0
  /\ page = "none"
  /\ menuShopStatus = "loading"
  /\ menuLoading = TRUE
  /\ menuStatusLoad = FALSE
  /\ orderBasket = <<>>
  /\ sessionOrderData = <<>>
  /\ summaryItems = <<>>
  /\ summaryTotal = 0
  /\ summaryPlacing = NotPlacing
  /\ orderCreationAttempts = <<>>
  /\ orderNumberView = "none"
  /\ placedAt = <<>>
  /\ limiterCalls = <<>>

\* Status-update requests: every status for every order with a bearer
\* header, and one request for each way the handler refuses or fails.
PutRequests ==
  {<<"Bearer t", Uuid(n), s, TRUE>> : n \in 1..MaxOrders, s \in RequestedStatuses}
    \cup {<<h, Uuid(1), "ready", TRUE>> : h \in AuthHeaders}
    \cup {<<"Bearer t", JsInt(1), "ready", TRUE>>,
          <<"Bearer t", JsUndefined, "ready", TRUE>>,
          <<"Bearer t", Uuid(1), "ready", FALSE>>}

\* The example order is placed, its status is changed through the dashboard
\* and through the API.
Next ==
  \/ /\ Len(orders) < MaxOrders
     /\ \E orderOk \in BOOLEAN, itemsOk \in BOOLEAN :
          POST_orders(ExampleBody, MinCode4, orderOk, itemsOk)
  \/ \E r \in PutRequests : PUT_order_tracking(r[1], r[2], r[3], r[4])
  \/ DashMount
  \/ DashUnmount
  \/ \E ordersOk \in BOOLEAN, itemsOk \in BOOLEAN : loadOrders(ordersOk, itemsOk)
  \/ \E n \in 1..MaxOrders, s \in DashboardOptions, dbOk \in BOOLEAN :
       updateOrderStatus(n, s, dbOk)

Spec == Init /\ [][Next]_vars

\* ------------------------------------------------------------------ C1
\* C1: no row of table orders ever has the status 'collected': the
\* dashboard stores a request for 'collected' as 'completed' and the API
\* refuses it.
C1_NoCollectedPersisted ==
  \A i \in 1..Len(orders) : orders[i].status # "collected"

\* A request for 'collected' has acted: without an id column the API changes
\* no row, so only the dashboard's 'collected' leads to 'completed', and the
\* dashboard has dropped the order from its list.
C1_Witness ==
  /\ ~hasIdColumn
  /\ dashMounted
  /\ \E i \in 1..Len(orders) :
       /\ orders[i].status = "completed"
       /\ \A j \in 1..Len(dashOrders) :
            dashOrders[j].order_number # orders[i].order_number

\* ------------------------------------------------------------ placement
\* Request bodies of POST /api/orders.
RequestBodies == [items : JsonItems, totalAmount : SampleTotals]

\* Bodies whose items field is missing or no list.
MalformedBodies == {body \in RequestBodies : body.items.kind # "list"}

\* Bodies written by hand: a status of their own, and an item without a
\* variant.
StatusBodies ==
  {[items |-> [kind |-> "list",
               list |-> << [id |-> 2, name |-> "Montana BBQ Hamburger Large",
                            price |-> 28000, quantity |-> 2, variant |-> ""] >>],
    totalAmount |-> 56000,
    status |-> status] : status \in {"completed", "cancelled"}}

\* A body whose item is named size first, as the menu-simple endpoint
\* builds display names.
PrefixNameBody ==
  [items |-> [kind |-> "list",
              list |-> << [id |-> 1, name |-> "Regular Montana BBQ Hamburger",
                           price |-> 28000, quantity |-> 2, variant |-> "Beef"] >>],
   totalAmount |-> 56000]

\* Bodies with a list of items.
ListBodies ==
  {body \in RequestBodies : body.items.kind = "list"}
    \cup StatusBodies \cup {PrefixNameBody}

\* Orders are placed with any body and tracked with any pair of parameters.
NextPlacement ==
  \/ /\ Len(orders) < MaxOrders
     /\ \E body \in MalformedBodies \cup ListBodies, code \in Codes4,
           orderOk \in BOOLEAN, itemsOk \in BOOLEAN :
          POST_orders(body, code, orderOk, itemsOk)
  \/ \E n \in TrackingParams(1..MaxOrders), v \in TrackingParams(Codes4),
        dbOk \in BOOLEAN :
       GET_order_tracking(n, v, dbOk)

SpecPlacement == Init /\ [][NextPlacement]_vars

\* The item rows written for an order at its creation.
ItemsWrittenFor(order) ==
  SelectSeq(order_items, LAMBDA item : item.order_id = order.order_number)

Abs(x) == IF x < 0 THEN 0 - x ELSE x

\* ------------------------------------------------------------------ C8
\* C8: a POST /api/orders whose items field is missing or no list inserts
\* neither an order row nor an order-item row.
C8_MalformedItemsNotPersisted ==
  [][\A body \in MalformedBodies, code \in Codes4 :
       \A orderOk \in BOOLEAN, itemsOk \in BOOLEAN :
         POST_orders(body, code, orderOk, itemsOk)
           => (orders' = orders /\ order_items' = order_items)]_vars

\* ------------------------------------------------------------------ C9
\* C9: an order that placement answers with 200 has a total_amount within
\* the tolerance of the sum of unit price * quantity over its item rows.
C9_TotalAgreesWithItems ==
  (response.op = "POST /api/orders" /\ response.status = 200)
    => LET order == response.orders[1]
           rows == ItemsWrittenFor(order)
           calculatedTotal == SumSeq([i \in 1..Len(rows) |->
                                        rows[i].unit_price * rows[i].quantity])
       IN Abs(calculatedTotal - order.total_amount) < Tolerance

\* ------------------------------------------------------------------ C10
\* C10: a tracking request answered with 200 returns exactly the item rows
\* that were written for the order at its creation.
C10_TrackedItemsAreCreatedItems ==
  (response.op = "GET /api/order-tracking" /\ response.status = 200)
    => response.items = ItemsWrittenFor(response.orders[1])

\* ------------------------------------------------------------ OrderSystem
\* generateUniqueVerificationNumber: the do/while loop ends with the first
\* draw that is not in usedVerificationNumbers, or throws when more than
\* 1000 draws in a row were used numbers.  The outcome is either way what
\* the loop ends with: the error thrown, or the code returned.
Thrown == [kind |-> "throw"]

VerificationOutcomes ==
  {JsInt(v) : v \in Codes5 \ usedVerificationNumbers}
    \cup (IF usedVerificationNumbers = {} THEN {} ELSE {Thrown})

\* createNewOrder: on a throw the order number is rolled back.
createNewOrder(outcome) ==
  /\ currentOrderNumber <= MaxPlaced
  /\ outcome \in VerificationOutcomes
  /\ IF outcome = Thrown
     THEN UNCHANGED <<currentOrderNumber, usedVerificationNumbers, systemOrders>>
     ELSE /\ currentOrderNumber' = currentOrderNumber + 1
          /\ usedVerificationNumbers' = usedVerificationNumbers \cup {outcome.n}
          /\ systemOrders' = Append(systemOrders,
                                    [orderNumber |-> currentOrderNumber,
                                     verificationNumber |-> outcome.n])
  /\ UNCHANGED <<storeVars, dbVars, response, dashVars, viewVars, codVars, statusUpdates,
                 subscribers, secureSub, secureHandlers, hybrid, localOrders,
                 pollInterval, pollTicks, subscription, calls, notifications>>

\* Status-update requests for the orders placed through the API.
PutRequestsPlaced ==
  {<<"Bearer t", Uuid(n), s, TRUE>> : n \in 1..MaxPlaced, s \in validStatuses}

\* Orders are created by both generators, with any code of the sampled
\* ranges, and their status is changed.
NextCodes ==
  \/ /\ Len(orders) < MaxPlaced
     /\ \E code \in Codes4, orderOk \in BOOLEAN, itemsOk \in BOOLEAN :
          POST_orders(ExampleBody, code, orderOk, itemsOk)
  \/ \E r \in PutRequestsPlaced : PUT_order_tracking(r[1], r[2], r[3], r[4])
  \/ \E outcome \in VerificationOutcomes : createNewOrder(outcome)

SpecCodes == Init /\ [][NextCodes]_vars

\* ------------------------------------------------------------------ C4
\* C4: no two non-completed orders of the same generator carry the same
\* verification code, for POST /api/orders and for OrderSystem.
C4_CodesUniqueAmongActive ==
  /\ \A i, j \in 1..Len(orders) :
       (i # j /\ orders[i].status # "completed" /\ orders[j].status # "completed")
         => orders[i].verification_number # orders[j].verification_number
  /\ \A i, j \in 1..Len(systemOrders) :
       i # j => systemOrders[i].verificationNumber # systemOrders[j].verificationNumber

\* ------------------------------- SupabaseOrderManager.updateOrderStatus
\* The statuses of the library's order type.
LibraryStatuses == {"waiting", "preparing", "ready", "completed"}

\* .update({status}).eq('order_number', n).select().single(): an error is
\* thrown to the caller; nothing else is kept.
SupabaseOrderManager_updateOrderStatus(orderNumber, newStatus, dbOk) ==
  /\ UNCHANGED <<storeVars, hasIdColumn, order_items, response, dashCore, viewCore, codCore,
                 libCore>>
  /\ LET hit == MatchingRows("order_number", orderNumber)
     IN IF ~dbOk \/ Len(hit) # 1
        THEN UNCHANGED <<orders, notified>>
        ELSE /\ orders' = UpdateStatus("order_number", orderNumber, newStatus)
             /\ Notify("UPDATE", [hit[1] EXCEPT !.status = newStatus])

\* ------------------------------------ OrderTrackingContent (tracking view)
\* The view's effect: both URL parameters are needed and must parse; then
\* fetchOrderStatus() is called.  Otherwise the effect returns and the view
\* stays on its loading screen.
ViewMount(orderNumberParam, verificationNumberParam) ==
  /\ viewPhase = "unmounted"
  /\ viewPhase' = "mounted"
  /\ LET orderNumber == parseInt(orderNumberParam)
         verificationNumber == parseInt(verificationNumberParam)
     IN IF \/ orderNumberParam = "" \/ verificationNumberParam = ""
           \/ orderNumber = NaN \/ verificationNumber = NaN
        THEN UNCHANGED <<viewOrderNumber, viewVerification, viewFetch>>
        ELSE /\ viewOrderNumber' = orderNumber.n
             /\ viewVerification' = verificationNumber.n
             /\ viewFetch' = "pending"
  /\ UNCHANGED <<storeVars, dbVars, response, dashVars, viewChannel, viewLive, codVars, libVars>>

\* The tracking data shown when the query fails.
FallbackTracking ==
  [orderNumber |-> viewOrderNumber,
   verificationNumber |-> viewVerification,
   status |-> "waiting"]

\* orderData.order_items?.map(...): the embedded item rows as shown.
TrackedItem(item) ==
  [name |-> (IF item.size_code # "" THEN "(" \o item.size_code \o ") " ELSE "")
              \o item.base_name,
   variant |-> item.protein,
   quantity |-> item.quantity,
   price |-> item.unit_price]

\* The tracking data built from the order row: the verification number is
\* the one of the URL.
TrackingOf(orderData) ==
  LET rows == SelectSeq(order_items,
                        LAMBDA item : item.order_id = orderData.order_number)
  IN [orderNumber |-> orderData.order_number,
      verificationNumber |-> viewVerification,
      status |-> orderData.status,
      items |-> [i \in 1..Len(rows) |-> TrackedItem(rows[i])],
      total |-> orderData.total_amount]

\* The query of fetchOrderStatus returns and the function runs to its end:
\* .eq('order_number', orderNumber).single().  The state setters have no
\* effect once the view is torn down; the timer and the channel are made
\* all the same.
fetchOrderStatus(dbOk) ==
  /\ viewFetch = "pending"
  /\ viewFetch' = "done"
  /\ UNCHANGED <<storeVars, dbVars, response, dashVars, viewPhase, viewOrderNumber,
                 viewVerification, codVars, libVars>>
  /\ LET hit == SelectSeq(orders, LAMBDA row : row.order_number = viewOrderNumber)
     IN IF ~dbOk \/ Len(hit) # 1
        THEN /\ trackingData' = IF viewPhase = "mounted"
                                THEN <<FallbackTracking>> ELSE trackingData
             /\ currentStatus' = IF viewPhase = "mounted"
                                 THEN "waiting" ELSE currentStatus
             /\ UNCHANGED <<viewChannel, viewRedirects>>
        ELSE LET orderData == hit[1]
             IN /\ trackingData' = IF viewPhase = "mounted"
                                   THEN <<TrackingOf(orderData)>> ELSE trackingData
                /\ currentStatus' = IF viewPhase = "mounted"
                                    THEN orderData.status ELSE currentStatus
                /\ viewRedirects' =
                     IF orderData.status \in {"collected", "completed"}
                     THEN ScheduleRedirect(viewRedirects)
                     ELSE viewRedirects
                /\ viewChannel' = TRUE

\* --------------------------------------------------- CurrentOrdersDisplay
\* The component is rendered once the view has tracking data.  Its effect
\* calls fetchCurrentOrders(), starts setupRealtimeSubscription() and the
\* 2 s polling interval.
CodMount ==
  /\ viewPhase = "mounted"
  /\ trackingData # <<>>
  /\ codPhase = "unmounted"
  /\ codPhase' = "mounted"
  /\ codFetchPending' = TRUE
  /\ codSetup' = "pending"
  /\ codPolling' = TRUE
  /\ UNCHANGED <<storeVars, dbVars, response, dashVars, viewVars, codSubscribed, codIsLoading,
                 currentOrders, libVars>>

\* setupRealtimeSubscription() resolves: the channel is subscribed.  After a
\* teardown the effect's cleanup has chained the unsubscription to this
\* promise, so the channel is unsubscribed at once.
setupRealtimeSubscription ==
  /\ codSetup = "pending"
  /\ codSetup' = "done"
  /\ codSubscribed' = (codPhase = "mounted")
  /\ UNCHANGED <<storeVars, dbVars, response, dashVars, viewVars, codPhase, codPolling,
                 codFetchPending, codIsLoading, currentOrders, libVars>>

\* A tick of the polling interval.
CodPollTick ==
  /\ codPolling
  /\ ~codFetchPending
  /\ codFetchPending' = TRUE
  /\ UNCHANGED <<storeVars, dbVars, response, dashVars, viewVars, codCore, libVars>>

Take(q, n) == SubSeq(q, 1, IF Len(q) < n THEN Len(q) ELSE n)

\* .in('status', [...]).order('created_at', {ascending: false}).limit(10)
CurrentOrdersQuery ==
  LET rows == Take(Reverse(SelectSeq(orders, LAMBDA row :
                  row.status \in {"pending", "preparing", "ready", "completed"})),
                CurrentOrdersLimit)
  IN [i \in 1..Len(rows) |->
        [order_number |-> rows[i].order_number,
         status |-> rows[i].status,
         total_amount |-> rows[i].total_amount]]

\* A fetchCurrentOrders() call returns.
fetchCurrentOrders(dbOk) ==
  /\ codFetchPending
  /\ codFetchPending' = FALSE
  /\ IF codPhase = "mounted"
     THEN /\ currentOrders' = IF dbOk THEN CurrentOrdersQuery ELSE <<>>
          /\ codIsLoading' = FALSE
     ELSE UNCHANGED <<currentOrders, codIsLoading>>
  /\ UNCHANGED <<storeVars, dbVars, response, dashVars, viewVars, codPhase, codSetup,
                 codSubscribed, codPolling, libVars>>

\* The view is left (also by the redirect's router.push): its state and its
\* children go.  The view's own cleanup does nothing; the display's cleanup
\* unsubscribes its channel and clears its interval.
ViewTeardown ==
  /\ viewPhase = "mounted"
  /\ viewPhase' = "torndown"
  /\ trackingData' = <<>>
  /\ currentStatus' = "waiting"
  /\ IF codPhase = "mounted"
     THEN /\ codPhase' = "torndown"
          /\ codSubscribed' = FALSE
          /\ codPolling' = FALSE
          /\ codIsLoading' = TRUE
          /\ currentOrders' = <<>>
     ELSE UNCHANGED <<codPhase, codSubscribed, codPolling, codIsLoading, currentOrders>>
  /\ UNCHANGED <<storeVars, dbVars, response, dashVars, viewOrderNumber, viewVerification,
                 viewFetch, viewChannel, viewRedirects, codSetup, codFetchPending,
                 libVars>>

\* An order is placed and its status changed while a customer follows it.
NextTrack ==
  \/ /\ Len(orders) < MaxOrders
     /\ \E orderOk \in BOOLEAN, itemsOk \in BOOLEAN :
          POST_orders(ExampleBody, MinCode4, orderOk, itemsOk)
  \/ \E n \in 1..MaxOrders, s \in LibraryStatuses, dbOk \in BOOLEAN :
       SupabaseOrderManager_updateOrderStatus(n, s, dbOk)
  \/ \E n \in TrackingParams(1..MaxOrders), v \in TrackingParams(Codes4) :
       ViewMount(n, v)
  \/ \E dbOk \in BOOLEAN : fetchOrderStatus(dbOk)
  \/ ViewTeardown
  \/ CodMount
  \/ setupRealtimeSubscription
  \/ CodPollTick
  \/ \E dbOk \in BOOLEAN : fetchCurrentOrders(dbOk)
  \/ \E n \in TrackingParams(1..MaxOrders), v \in TrackingParams(Codes4),
        dbOk \in BOOLEAN :
       GET_order_tracking(n, v, dbOk)

SpecTrack == Init /\ [][NextTrack]_vars

\* ------------------------------------------------ TrackingDemo.getAllOrders
\* Every entry of the stored tracking map, whatever its status.
getAllOrders ==
  {[orderNumber |-> n, status |-> statusUpdates[n].status] : n \in DOMAIN statusUpdates}

\* ------------------------------------------------------------------ C2
\* C2: no read that presents the active orders holds a completed order:
\* the dashboard's list, the list of CurrentOrdersDisplay and the result of
\* TrackingDemo.getAllOrders.
C2_CompletedNotInActiveReads ==
  /\ \A i \in 1..Len(dashOrders) : dashOrders[i].status # "completed"
  /\ \A i \in 1..Len(currentOrders) : currentOrders[i].status # "completed"
  /\ \A o \in getAllOrders : o.status # "completed"

\* ------------------------------------------------------------------ C3
\* An order with this number and this verification code exists.
PairExists(orderNumber, verificationNumber) ==
  \E i \in 1..Len(orders) :
    /\ EqInt(orders[i].order_number, orderNumber)
    /\ EqInt(orders[i].verification_number, verificationNumber)

\* Tracking data built from an order row, not the fallback.
HasOrderData(tracking) == "total" \in DOMAIN tracking

\* C3: a tracking lookup returns order data only for a pair (N, V) of an
\* existing order, and returns the order for such a pair when its query
\* succeeds; for GET /api/order-tracking and for the view's fetch.
C3_LookupNeedsMatchingCode ==
  [][/\ \A n \in TrackingParams(1..MaxOrders), v \in TrackingParams(Codes4) :
          \A dbOk \in BOOLEAN :
            GET_order_tracking(n, v, dbOk)
              => /\ response'.status = 200 => PairExists(parseInt(n), parseInt(v))
                 /\ (dbOk /\ PairExists(parseInt(n), parseInt(v)))
                      => response'.status = 200
     /\ \A dbOk \in BOOLEAN :
          (fetchOrderStatus(dbOk) /\ trackingData' # <<>>)
            => /\ HasOrderData(trackingData'[1])
                    => PairExists(JsInt(viewOrderNumber), JsInt(viewVerification))
               /\ (dbOk /\ PairExists(JsInt(viewOrderNumber), JsInt(viewVerification)))
                    => HasOrderData(trackingData'[1])]_vars

\* ------------------------------------------------------------------ C6
\* C6: once the tracking view is torn down, neither its per-order channel
\* nor the current-orders channel is subscribed and no poll interval runs.
C6_TeardownCancelsEverything ==
  viewPhase = "torndown" => (~viewChannel /\ ~codSubscribed /\ ~codPolling)

\* ------------------------------------------------------------------ C7
\* C7: one tracking view schedules the navigation to the completion view
\* at most once.
C7_RedirectScheduledOnce == viewRedirects <= 1

\* ------------------------------------------------------- SecurityManager
Null == [kind |-> "null"]

\* input.replace(/[^0-9]/g, '')
RECURSIVE KeepDigits(_)
KeepDigits(s) ==
  IF Len(s) = 0 THEN ""
  ELSE (IF IsDigit(SubSeq(s, 1, 1)) THEN SubSeq(s, 1, 1) ELSE "")
         \o KeepDigits(SubSeq(s, 2, Len(s)))

sanitizeOrderNumber(input) ==
  IF input = "" THEN Null
  ELSE LET parsed == parseInt(KeepDigits(input))
       IN IF parsed = NaN \/ parsed.n < 1 \/ parsed.n > 999999 THEN Null ELSE parsed

sanitizeVerificationNumber(input) ==
  IF input = "" THEN Null
  ELSE LET cleaned == KeepDigits(input)
           parsed == parseInt(cleaned)
       IN IF parsed = NaN \/ Len(cleaned) # 5 \/ parsed.n < 10000 \/ parsed.n > 99999
          THEN Null ELSE parsed

\* Prices are in hundredths: 1000 is 100000.
validateOrderItems(items) ==
  /\ Len(items) # 0 /\ Len(items) <= 20
  /\ \A i \in 1..Len(items) :
       /\ items[i].id >= 1 /\ items[i].id <= 1000
       /\ items[i].name # "" /\ Len(items[i].name) <= 100
       /\ items[i].quantity >= 1 /\ items[i].quantity <= 99
       /\ items[i].price > 0 /\ items[i].price <= 100000

validateTotalAmount(items, totalAmount) ==
  LET calculatedTotal == SumSeq([i \in 1..Len(items) |->
                                    items[i].price * items[i].quantity])
  IN Abs(calculatedTotal - totalAmount) < Tolerance

LowerAlnum == "abcdefghijklmnopqrstuvwxyz0123456789"

IsLowerAlnum(s) ==
  \A i \in 1..Len(s) : \E k \in 1..Len(LowerAlnum) :
    SubSeq(s, i, i) = SubSeq(LowerAlnum, k, k)

\* /^customer_[a-z0-9]{8,}_[a-z0-9]{9,}$/ and a length of 25 to 50.
validateCustomerSession(session) ==
  /\ Len(session) >= 25 /\ Len(session) <= 50
  /\ startsWith(session, "customer_")
  /\ \E k \in 10..Len(session) :
       /\ SubSeq(session, k, k) = "_"
       /\ k - 10 >= 8 /\ IsLowerAlnum(SubSeq(session, 10, k - 1))
       /\ Len(session) - k >= 9 /\ IsLowerAlnum(SubSeq(session, k + 1, Len(session)))

\* generateCustomerSession(): customer_<time in base 36>_<16 hex digits>.
customerSession == "customer_lq3k2x9a_0123456789abcdef"

\* --------------------------------------------------------- TrackingSystem
\* The statuses a live-status subscription is followed with.
SubStatuses == {"preparing", "completed"}

TrackingSystem_initializeOrder(orderNumber, verificationNumber) ==
  /\ statusUpdates' = (orderNumber :> [orderNumber |-> orderNumber,
                                        verificationNumber |-> verificationNumber,
                                        status |-> "waiting"]) @@ statusUpdates
  /\ UNCHANGED <<storeVars, dbVars, response, dashVars, viewVars, codVars, currentOrderNumber,
                 usedVerificationNumbers, systemOrders, subscribers, secureSub,
                 secureHandlers, hybrid, localOrders, pollInterval, pollTicks,
                 subscription, calls, notifications>>

\* The callbacks subscribed to any order.
RECURSIVE SubscribersUpTo(_)
SubscribersUpTo(n) ==
  IF n = 0 THEN <<>>
  ELSE SubscribersUpTo(n - 1) \o (IF n \in DOMAIN subscribers THEN subscribers[n] ELSE <<>>)

SubscribersOfAny(orderNumber) == SubscribersUpTo(MaxTracked)

\* The callbacks subscribed to an order: this.subscribers.get(n) || [].
SubscribersOf(orderNumber) ==
  IF orderNumber \in DOMAIN subscribers THEN subscribers[orderNumber] ELSE <<>>

\* An invocation of each of these callbacks.
Invoke(callbacks) ==
  /\ calls' = [cb \in Callbacks |-> IF cb \in callbacks THEN calls[cb] + 1 ELSE calls[cb]]
  /\ UNCHANGED notifications

CanInvoke(callbacks) == \A cb \in callbacks : calls[cb] < MaxCalls

\* getOrderTracking(n) on a map of tracking data: the entry or null.
getOrderTracking(updates, orderNumber) ==
  IF orderNumber \in DOMAIN updates THEN updates[orderNumber] ELSE Null

\* updateOrderStatus for an order that has an entry: the entry with the
\* new status is set, then forEach calls every subscriber of the order, in
\* the array's order, with the new status.  A callback that reads
\* getOrderTracking reads the map as it is at that time.
StoreAndNotify(orderNumber, newStatus) ==
  LET orderSubscribers == SubscribersOf(orderNumber)
      stored == [statusUpdates EXCEPT ![orderNumber].status = newStatus]
  IN /\ CanInvoke({orderSubscribers[i] : i \in 1..Len(orderSubscribers)})
     /\ statusUpdates' = stored
     /\ calls' = [cb \in Callbacks |->
                    calls[cb] + Cardinality({i \in 1..Len(orderSubscribers) :
                                               orderSubscribers[i] = cb})]
     /\ notifications' =
          [i \in 1..Len(orderSubscribers) |->
             [callback |-> orderSubscribers[i],
              orderNumber |-> orderNumber,
              status |-> newStatus,
              read |-> getOrderTracking(stored, orderNumber).status]]

\* TrackingSystem.updateOrderStatus: without an entry nothing is done.
TrackingSystem_updateOrderStatus(orderNumber, newStatus) ==
  /\ IF orderNumber \in DOMAIN statusUpdates
     THEN StoreAndNotify(orderNumber, newStatus)
     ELSE UNCHANGED <<statusUpdates, calls, notifications>>
  /\ UNCHANGED <<storeVars, dbVars, response, dashVars, viewVars, codVars, currentOrderNumber,
                 usedVerificationNumbers, systemOrders, subscribers, secureSub,
                 secureHandlers, hybrid, localOrders, pollInterval, pollTicks,
                 subscription>>

subscribeToOrder(orderNumber, callback) ==
  /\ subscription[callback] = "none"
  /\ subscribers' = (orderNumber :> Append(SubscribersOf(orderNumber), callback))
                      @@ subscribers
  /\ subscription' = [subscription EXCEPT ![callback] = "active"]
  /\ UNCHANGED <<storeVars, dbVars, response, dashVars, viewVars, codVars, currentOrderNumber,
                 usedVerificationNumbers, systemOrders, statusUpdates, secureSub,
                 secureHandlers, hybrid, localOrders, pollInterval, pollTicks, calls, notifications>>

\* orderSubscribers.splice(indexOf(callback), 1)
RemoveFirst(q, x) ==
  IF \E i \in 1..Len(q) : q[i] = x
  THEN LET index == CHOOSE i \in 1..Len(q) : q[i] = x /\ \A j \in 1..(i - 1) : q[j] # x
       IN SubSeq(q, 1, index - 1) \o SubSeq(q, index + 1, Len(q))
  ELSE q

\* The function subscribeToOrder returned is called.
TrackingSystem_unsubscribe(orderNumber, callback) ==
  /\ subscription[callback] = "active"
  /\ orderNumber \in DOMAIN subscribers
  /\ \E i \in 1..Len(subscribers[orderNumber]) : subscribers[orderNumber][i] = callback
  /\ subscribers' = [subscribers EXCEPT ![orderNumber] = RemoveFirst(@, callback)]
  /\ subscription' = [subscription EXCEPT ![callback] = "ended"]
  /\ UNCHANGED <<storeVars, dbVars, response, dashVars, viewVars, codVars, currentOrderNumber,
                 usedVerificationNumbers, systemOrders, statusUpdates, secureSub,
                 secureHandlers, hybrid, localOrders, pollInterval, pollTicks, calls, notifications>>

\* ------------------------- SecureSupabaseOrderManager.subscribeToOrderStatus
\* rpc('validate_order_ownership', {p_order_number, p_verification_no}): the
\* order of this number carries this verification number.
validate_order_ownership(p_order_number, p_verification_no) ==
  PairExists(JsInt(p_order_number), JsInt(p_verification_no))

\* The body of subscribeToOrderStatus for one callback: invalid credentials
\* throw, otherwise the channel order-<n> is subscribed.
SecureSubscribe(orderNumber, verificationNumber, callback) ==
  LET sanitizedOrderNumber == sanitizeOrderNumber(ToString(orderNumber))
      sanitizedVerificationNumber ==
        sanitizeVerificationNumber(ToString(verificationNumber))
  IN IF sanitizedOrderNumber = Null \/ sanitizedVerificationNumber = Null
     THEN UNCHANGED <<secureSub, subscription>>
     ELSE /\ secureSub' = [channel |-> TRUE,
                           orderNumber |-> sanitizedOrderNumber.n,
                           verificationNumber |-> sanitizedVerificationNumber.n,
                           callback |-> callback]
          /\ subscription' = [subscription EXCEPT ![callback] = "active"]

SecureSupabaseOrderManager_subscribeToOrderStatus(orderNumber, verificationNumber) ==
  /\ subscription["secure"] = "none"
  /\ secureSub.callback = "none"
  /\ SecureSubscribe(orderNumber, verificationNumber, "secure")
  /\ UNCHANGED <<storeVars, dbVars, response, pageVars, orderSystemVars, trackingSystemVars,
                 secureHandlers, hybrid, localOrders, pollInterval, pollTicks, calls, notifications>>

\* The handler of one UPDATE event resumes after its validation: the
\* callback is called when the answer is true, whether or not the channel
\* is still subscribed.
SecureHandlerReturn(status, rpcOk) ==
  /\ status \in secureHandlers
  /\ secureHandlers' = secureHandlers \ {status}
  /\ IF rpcOk /\ validate_order_ownership(secureSub.orderNumber,
                                           secureSub.verificationNumber)
     THEN /\ CanInvoke({secureSub.callback})
          /\ Invoke({secureSub.callback})
     ELSE UNCHANGED <<calls, notifications>>
  /\ UNCHANGED <<storeVars, dbVars, response, pageVars, orderSystemVars, trackingSystemVars,
                 secureSub, hybrid, localOrders, pollInterval, pollTicks, subscription>>

\* The function subscribeToOrderStatus returned is called.
SecureSupabaseOrderManager_unsubscribe ==
  /\ subscription["secure"] = "active"
  /\ secureSub' = [secureSub EXCEPT !.channel = FALSE]
  /\ subscription' = [subscription EXCEPT !["secure"] = "ended"]
  /\ UNCHANGED <<storeVars, dbVars, response, pageVars, orderSystemVars, trackingSystemVars,
                 secureHandlers, hybrid, localOrders, pollInterval, pollTicks, calls, notifications>>

\* ----------------------------------------------------- HybridOrderSystem
\* The constructor: useSupabase is false and checkSupabaseAvailability()
\* is started.
HybridOrderSystem_getInstance ==
  /\ ~hybrid.instance
  /\ hybrid' = [instance |-> TRUE, useSupabase |-> FALSE, check |-> "pending"]
  /\ UNCHANGED <<storeVars, dbVars, response, pageVars, orderSystemVars, trackingSystemVars,
                 secureSub, secureHandlers, localOrders, pollInterval, pollTicks,
                 subscription, calls, notifications>>

\* The connection test returns.
checkSupabaseAvailability(available) ==
  /\ hybrid.check = "pending"
  /\ hybrid' = [hybrid EXCEPT !.useSupabase = available, !.check = "done"]
  /\ UNCHANGED <<storeVars, dbVars, response, pageVars, orderSystemVars, trackingSystemVars,
                 secureSub, secureHandlers, localOrders, pollInterval, pollTicks,
                 subscription, calls, notifications>>

\* SecureSupabaseOrderManager.createOrder succeeds: every validation and the
\* rpc create_order_secure.
SecureCreateOrderSucceeds(orderNumber, verificationNumber, items, totalAmount, dbOk) ==
  /\ sanitizeOrderNumber(ToString(orderNumber)) # Null
  /\ sanitizeVerificationNumber(ToString(verificationNumber)) # Null
  /\ validateOrderItems(items)
  /\ validateTotalAmount(items, totalAmount)
  /\ validateCustomerSession(customerSession)
  /\ dbOk

\* createOrder: in the database when it is used and the creation succeeds,
\* otherwise in localStorage (cafe-order-<n>).  The stored text is the
\* encrypted JSON of the order data; the data is kept here.
HybridOrderSystem_createOrder(orderNumber, verificationNumber, items, totalAmount, dbOk) ==
  /\ hybrid.instance
  /\ UNCHANGED <<storeVars, hasIdColumn, order_items, response, pageCore, orderSystemVars,
                 trackingSystemVars, secureSub, hybrid, pollInterval, pollTicks,
                 subscription, calls, notifications>>
  /\ IF /\ hybrid.useSupabase
        /\ SecureCreateOrderSucceeds(orderNumber, verificationNumber, items,
                                     totalAmount, dbOk)
     THEN LET row == [NewOrderRow(verificationNumber, totalAmount)
                        EXCEPT !.order_number = orderNumber, !.status = "waiting"]
          IN /\ orders' = Append(orders, row)
             /\ Notify("INSERT", row)
             /\ UNCHANGED localOrders
     ELSE /\ localOrders' = (orderNumber :> [orderNumber |-> orderNumber,
                                              verificationNumber |-> verificationNumber,
                                              totalAmount |-> totalAmount,
                                              status |-> "waiting"]) @@ localOrders
          /\ UNCHANGED <<orders, notified>>

\* updateOrderStatus: rpc update_order_status_secure when the database is
\* used; when that throws, and when it is not used, the local order.
HybridOrderSystem_updateOrderStatus(orderNumber, newStatus, dbOk) ==
  /\ hybrid.instance
  /\ UNCHANGED <<storeVars, hasIdColumn, order_items, response, pageCore, orderSystemVars,
                 trackingSystemVars, secureSub, hybrid, pollInterval, pollTicks,
                 subscription, calls, notifications>>
  /\ IF /\ hybrid.useSupabase
        /\ sanitizeOrderNumber(ToString(orderNumber)) # Null
        /\ newStatus \in LibraryStatuses
        /\ dbOk
     THEN LET hit == MatchingRows("order_number", orderNumber)
          IN /\ orders' = UpdateStatus("order_number", orderNumber, newStatus)
             /\ IF Len(hit) > 0
                THEN Notify("UPDATE", [hit[1] EXCEPT !.status = newStatus])
                ELSE UNCHANGED notified
             /\ UNCHANGED localOrders
     ELSE /\ localOrders' = IF orderNumber \in DOMAIN localOrders
                            THEN [localOrders EXCEPT ![orderNumber].status = newStatus]
                            ELSE localOrders
          /\ UNCHANGED <<orders, notified>>

\* subscribeToOrderStatus: the secure channel when the database is used,
\* otherwise an interval of 2 s.
HybridOrderSystem_subscribeToOrderStatus(orderNumber, verificationNumber) ==
  /\ hybrid.instance
  /\ subscription["hybrid"] = "none"
  /\ IF hybrid.useSupabase
     THEN /\ secureSub.callback = "none"
          /\ SecureSubscribe(orderNumber, verificationNumber, "hybrid")
          /\ UNCHANGED pollInterval
     ELSE /\ pollInterval' = [active |-> TRUE, orderNumber |-> orderNumber,
                              verificationNumber |-> verificationNumber]
          /\ subscription' = [subscription EXCEPT !["hybrid"] = "active"]
          /\ UNCHANGED secureSub
  /\ UNCHANGED <<storeVars, dbVars, response, pageVars, orderSystemVars, trackingSystemVars,
                 secureHandlers, hybrid, localOrders, pollTicks, calls, notifications>>

\* A tick of the interval calls getOrderStatus.  Without the database it
\* resolves within the tick: the callback gets the local order's status, if
\* there is one.  With the database the tick awaits the query, unless the
\* credentials are invalid and getOrder returns null at once.
PollTick ==
  /\ pollInterval.active
  /\ IF hybrid.useSupabase
     THEN /\ sanitizeOrderNumber(ToString(pollInterval.orderNumber)) # Null
          /\ sanitizeVerificationNumber(ToString(pollInterval.verificationNumber)) # Null
          /\ pollTicks < MaxPending
          /\ pollTicks' = pollTicks + 1
          /\ UNCHANGED <<calls, notifications>>
     ELSE /\ pollInterval.orderNumber \in DOMAIN localOrders
          /\ CanInvoke({"hybrid"})
          /\ Invoke({"hybrid"})
          /\ UNCHANGED pollTicks
  /\ UNCHANGED <<storeVars, dbVars, response, pageVars, orderSystemVars, trackingSystemVars,
                 secureSub, secureHandlers, hybrid, localOrders, pollInterval,
                 subscription>>

\* The query of a tick returns: the order is visible when its verification
\* number is the one given; its status is passed to the callback.
PollReturn(dbOk) ==
  /\ pollTicks > 0
  /\ pollTicks' = pollTicks - 1
  /\ IF dbOk /\ PairExists(JsInt(pollInterval.orderNumber),
                           JsInt(pollInterval.verificationNumber))
     THEN /\ CanInvoke({"hybrid"})
          /\ Invoke({"hybrid"})
     ELSE UNCHANGED <<calls, notifications>>
  /\ UNCHANGED <<storeVars, dbVars, response, pageVars, orderSystemVars, trackingSystemVars,
                 secureSub, secureHandlers, hybrid, localOrders, pollInterval,
                 subscription>>

\* The function subscribeToOrderStatus returned is called.
HybridOrderSystem_unsubscribe ==
  /\ subscription["hybrid"] = "active"
  /\ subscription' = [subscription EXCEPT !["hybrid"] = "ended"]
  /\ IF pollInterval.active
     THEN /\ pollInterval' = [pollInterval EXCEPT !.active = FALSE]
          /\ UNCHANGED secureSub
     ELSE /\ secureSub' = [secureSub EXCEPT !.channel = FALSE]
          /\ UNCHANGED pollInterval
  /\ UNCHANGED <<storeVars, dbVars, response, pageVars, orderSystemVars, trackingSystemVars,
                 secureHandlers, hybrid, localOrders, pollTicks, calls, notifications>>

\* ------------------------------------------------- live-status subscriptions
\* An order is created and updated through the hybrid system and through
\* TrackingSystem while the three subscriptions come and go.
NextSub ==
  \/ \E v \in Codes5 : TrackingSystem_initializeOrder(1, v)
  \/ \E s \in SubStatuses : TrackingSystem_updateOrderStatus(1, s)
  \/ subscribeToOrder(1, "tracking")
  \/ TrackingSystem_unsubscribe(1, "tracking")
  \/ \E v \in {MinCode4, MinCode5} :
       SecureSupabaseOrderManager_subscribeToOrderStatus(1, v)
  \/ \E s \in LibraryStatuses, rpcOk \in BOOLEAN : SecureHandlerReturn(s, rpcOk)
  \/ SecureSupabaseOrderManager_unsubscribe
  \/ HybridOrderSystem_getInstance
  \/ \E available \in BOOLEAN : checkSupabaseAvailability(available)
  \/ /\ NextOrderNumber <= MaxOrders
     /\ \E total \in {56000, 91000}, dbOk \in BOOLEAN :
          HybridOrderSystem_createOrder(NextOrderNumber, MinCode5,
                                        ExampleBody.items.list, total, dbOk)
  \/ \E s \in SubStatuses, dbOk \in BOOLEAN :
       HybridOrderSystem_updateOrderStatus(1, s, dbOk)
  \/ HybridOrderSystem_subscribeToOrderStatus(1, MinCode5)
  \/ PollTick
  \/ \E dbOk \in BOOLEAN : PollReturn(dbOk)
  \/ HybridOrderSystem_unsubscribe

SpecSub == Init /\ [][NextSub]_vars

\* ------------------------------------------------------------------ C5
\* C5: once a subscription's unsubscribe function has been called, its
\* callback is not invoked again.
C5_NoCallbackAfterUnsubscribe ==
  [][\A cb \in Callbacks : subscription[cb] = "ended" => calls'[cb] = calls[cb]]_vars

\* ------------------------------------------------------- status updates
\* An order is placed and its status is changed by every writer of the
\* column: the API, the dashboard and the library helper.
NextStatus ==
  \/ /\ Len(orders) < MaxOrders
     /\ \E orderOk \in BOOLEAN, itemsOk \in BOOLEAN :
          POST_orders(ExampleBody, MinCode4, orderOk, itemsOk)
  \/ \E r \in PutRequests : PUT_order_tracking(r[1], r[2], r[3], r[4])
  \/ DashMount
  \/ DashUnmount
  \/ \E ordersOk \in BOOLEAN, itemsOk \in BOOLEAN : loadOrders(ordersOk, itemsOk)
  \/ \E n \in 1..MaxOrders, s \in DashboardOptions, dbOk \in BOOLEAN :
       updateOrderStatus(n, s, dbOk)
  \/ \E n \in 1..MaxOrders, s \in LibraryStatuses, dbOk \in BOOLEAN :
       SupabaseOrderManager_updateOrderStatus(n, s, dbOk)

SpecStatus == Init /\ [][NextStatus]_vars

\* ------------------------------------------------------------------ C11
\* C11: an order whose stored status is 'completed' keeps that status in
\* every later step, whichever status update is attempted.
C11_CompletedIsTerminal ==
  [][\A i \in 1..Len(orders) :
       orders[i].status = "completed" => orders'[i].status = "completed"]_vars

\* ------------------------------------------------------------------ C12
\* The statuses a customer is shown.
CustomerVisibleStatuses == {"pending", "preparing", "ready", "completed"}

\* C12: the stored status of every order is one of pending, preparing,
\* ready, completed, after any updates through the dashboard and the API.
C12_PersistedStatusIsCustomerVisible ==
  \A i \in 1..Len(orders) : orders[i].status \in CustomerVisibleStatuses

\* ----------------------------------------------------------- shop status
\* The owner dashboard's updateShopStatus: rpc update_shop_status sets the
\* status of the singleton row; on an error nothing changes.
updateShopStatus(newStatus, rpcOk) ==
  /\ shop_status' = IF rpcOk THEN newStatus ELSE shop_status
  /\ UNCHANGED <<dbVars, response, pageVars, libVars, catalogVars, flowVars>>

\* ---------------------------------------------------------------- MenuPage
\* The menu the grid offers.  The same list stands for the answer of
\* /api/menu and for the hardcoded fallback.
MenuOffer == SampleItems

\* A mounted MenuPage starts with no basket and both loads in flight.
MenuPageMounted ==
  /\ page' = "menu"
  /\ menuShopStatus' = "loading"
  /\ menuLoading' = TRUE
  /\ menuStatusLoad' = TRUE
  /\ orderBasket' = <<>>
  /\ summaryItems' = <<>>
  /\ summaryTotal' = 0
  /\ summaryPlacing' = [NotPlacing EXCEPT !.pending = summaryPlacing.pending]
  /\ orderNumberView' = "none"

\* The customer opens the menu (a link of another page, or the address).
MenuMount ==
  /\ page # "menu"
  /\ MenuPageMounted
  /\ UNCHANGED <<dbVars, response, pageVars, libVars, catalogVars, shopVars, now,
                 sessionOrderData, orderCreationAttempts, placedAt, limiterCalls>>

\* loadShopStatus(): rpc get_shop_status returns the current status; an
\* error, and any value but 'open' and 'closed', shows the shop closed.
loadShopStatus(rpcOk) ==
  /\ page = "menu"
  /\ menuStatusLoad
  /\ menuStatusLoad' = FALSE
  /\ menuShopStatus' = IF rpcOk /\ shop_status \in {"open", "closed"}
                       THEN shop_status ELSE "closed"
  /\ UNCHANGED <<dbVars, response, pageVars, libVars, catalogVars, shopVars, now, page,
                 menuLoading, orderBasket, sessionOrderData, summaryVars,
                 limiterVars, placedAt, limiterCalls>>

\* loadMenuItems() returns: the finally block clears loading.
loadMenuItems ==
  /\ page = "menu"
  /\ menuLoading
  /\ menuLoading' = FALSE
  /\ UNCHANGED <<dbVars, response, pageVars, libVars, catalogVars, shopVars, now, page,
                 menuShopStatus, menuStatusLoad, orderBasket, sessionOrderData,
                 summaryVars, limiterVars, placedAt, limiterCalls>>

\* The basket after "ADD TO CART" of an item with its selected variant: the
\* line of the same name and variant gets one more, or a new line is added.
\* The line carries the menu item's id, which is the id that is sent.
AddedToBasket(basket, item) ==
  IF \E i \in 1..Len(basket) :
       basket[i].name = item.name /\ basket[i].variant = item.variant
  THEN [i \in 1..Len(basket) |->
          IF basket[i].name = item.name /\ basket[i].variant = item.variant
          THEN [basket[i] EXCEPT !.quantity = @ + 1]
          ELSE basket[i]]
  ELSE Append(basket, [item EXCEPT !.quantity = 1])

\* handleAddToCart: the grid is rendered only when the page has seen the
\* shop open and the menu is loaded.
handleAddToCart(item) ==
  /\ page = "menu"
  /\ menuShopStatus = "open"
  /\ ~menuLoading
  /\ Len(AddedToBasket(orderBasket, item)) <= MaxItems
  /\ \A i \in 1..Len(orderBasket) :
       (orderBasket[i].name = item.name /\ orderBasket[i].variant = item.variant)
         => orderBasket[i].quantity < MaxQuantity
  /\ orderBasket' = AddedToBasket(orderBasket, item)
  /\ UNCHANGED <<dbVars, response, pageVars, libVars, catalogVars, shopVars, now, page,
                 menuShopStatus, menuLoading, menuStatusLoad, sessionOrderData,
                 summaryVars, limiterVars, placedAt, limiterCalls>>

\* The total shown: the sum of price * quantity over the basket.
BasketTotal(basket) ==
  SumSeq([i \in 1..Len(basket) |-> basket[i].price * basket[i].quantity])

\* MenuPage.handlePlaceOrder ("PLACE ORDER", shown whenever the basket is
\* not empty): the basket goes to sessionStorage and the summary page is
\* opened.  The menu page's state goes with the page.
MenuPage_handlePlaceOrder ==
  /\ page = "menu"
  /\ Len(orderBasket) > 0
  /\ sessionOrderData' = <<[items |-> orderBasket, total |-> BasketTotal(orderBasket)]>>
  /\ page' = "summary"
  /\ menuShopStatus' = "loading"
  /\ menuLoading' = TRUE
  /\ menuStatusLoad' = FALSE
  /\ orderBasket' = <<>>
  /\ UNCHANGED <<dbVars, response, pageVars, libVars, catalogVars, shopVars, now,
                 summaryVars, limiterVars, placedAt, limiterCalls>>

\* -------------------------------------------------------- OrderSummaryPage
\* The page's effect: the order data of sessionStorage is shown; without it
\* the menu is opened.
OrderSummaryEffect ==
  /\ page = "summary"
  /\ summaryItems = <<>>
  /\ IF sessionOrderData # <<>>
     THEN /\ summaryItems' = sessionOrderData[1].items
          /\ summaryTotal' = sessionOrderData[1].total
          /\ UNCHANGED summaryPlacing
          /\ UNCHANGED <<page, menuVars, orderNumberView>>
     ELSE MenuPageMounted
  /\ UNCHANGED <<dbVars, response, pageVars, libVars, catalogVars, shopVars, now,
                 sessionOrderData, orderCreationAttempts, placedAt, limiterCalls>>

\* The body handlePlaceOrder sends.
orderData ==
  [items |-> [kind |-> "list", list |-> summaryItems], totalAmount |-> summaryTotal]

\* OrderSummaryPage.handlePlaceOrder ("Place Order"): the request is sent
\* and answered.  With an order in the answer the stored basket is removed
\* and the order-number page is opened; otherwise the page stays.
OrderSummaryPage_handlePlaceOrder(code, orderOk, itemsOk) ==
  /\ page = "summary"
  /\ Len(summaryItems) > 0
  /\ Len(placedAt) < MaxRapidOrders
  /\ POST(orderData, code, orderOk, itemsOk)
  /\ placedAt' = IF orders' # orders THEN Append(placedAt, now) ELSE placedAt
  /\ UNCHANGED limiterCalls
  /\ IF response'.status = 200
     THEN /\ sessionOrderData' = <<>>
          /\ page' = "order-number"
          /\ orderNumberView' = "mounting"
          /\ summaryItems' = <<>>
          /\ summaryTotal' = 0
          /\ UNCHANGED summaryPlacing
     ELSE UNCHANGED <<sessionOrderData, page, orderNumberView, summaryVars>>
  /\ UNCHANGED <<catalogVars, shopVars, now, menuVars, orderCreationAttempts>>

\* ------------------------------------ SecurityManager: order-creation limit
\* generateSecureToken().slice(0, 16): the identifiers it is sampled with.
ClientTokens == 1..NumTokens

\* The attempts kept for a client, old ones included.
attemptsKept(clientId) ==
  IF clientId \in DOMAIN orderCreationAttempts
  THEN orderCreationAttempts[clientId] ELSE <<>>

\* attempts.filter(time => now - time < windowMs)
recentAttempts(clientId) ==
  SelectSeq(IF clientId \in DOMAIN orderCreationAttempts
            THEN orderCreationAttempts[clientId] ELSE <<>>,
            LAMBDA time : now - time < windowMs)

\* checkOrderCreationRateLimit: the value returned.
checkOrderCreationRateLimit(clientId) == Len(recentAttempts(clientId)) < maxAttempts

\* --------------------------------------------------------------- OrderNumber
\* The page's effect: a new client identifier is drawn and checked.  When
\* the limit refuses it, window.location.href loads the menu: the page and
\* the limiter's map start anew.  Otherwise the attempt is recorded and the
\* numbers are shown.
OrderNumberEffect(clientId) ==
  /\ page = "order-number"
  /\ orderNumberView = "mounting"
  /\ IF ~checkOrderCreationRateLimit(clientId)
     THEN /\ MenuPageMounted
          /\ orderCreationAttempts' = <<>>
     ELSE /\ orderCreationAttempts' =
               (clientId :> Append(recentAttempts(clientId), now)) @@ orderCreationAttempts
          /\ orderNumberView' = "shown"
          /\ UNCHANGED <<page, menuVars, summaryVars>>
  /\ UNCHANGED <<dbVars, response, pageVars, libVars, catalogVars, shopVars, now,
                 sessionOrderData, placedAt, limiterCalls>>

\* Time passes.
Tick ==
  /\ now + ClockStep <= MaxNow
  /\ now' = now + ClockStep
  /\ UNCHANGED <<dbVars, response, pageVars, libVars, catalogVars, shopVars, page,
                 menuVars, sessionOrderData, summaryVars, limiterVars, placedAt, limiterCalls>>

\* The first item of the menu, as the grid offers it.
FirstOffer == CHOOSE item \in MenuOffer : item.id = 1

\* One customer orders again and again while the owner opens and closes
\* the shop.
NextShop ==
  \/ \E newStatus \in {"open", "closed"}, rpcOk \in BOOLEAN :
       updateShopStatus(newStatus, rpcOk)
  \/ MenuMount
  \/ \E rpcOk \in BOOLEAN : loadShopStatus(rpcOk)
  \/ loadMenuItems
  \/ handleAddToCart(FirstOffer)
  \/ MenuPage_handlePlaceOrder
  \/ OrderSummaryEffect
  \/ \E orderOk \in BOOLEAN : OrderSummaryPage_handlePlaceOrder(MinCode4, orderOk, TRUE)
  \/ \E clientId \in ClientTokens : OrderNumberEffect(clientId)
  \/ Tick

SpecShop == Init /\ [][NextShop]_vars

\* ------------------------------------------------------------------ C13
\* C13: while the shop is closed no order row is created.
C13_NoOrderWhileClosed ==
  [][shop_status = "closed" => orders' = orders]_vars

\* ------------------------------------------------------------------ C14
\* C14: at most maxAttempts of one customer's orders are created within any
\* window of windowMs.
C14_OrderCreationRateLimited ==
  \A i \in 1..Len(placedAt) :
    Cardinality({j \in 1..i : placedAt[i] - placedAt[j] < windowMs}) <= maxAttempts

\* ------------------------------------------------ global variant options
\* String.prototype.trim, for blanks.
RECURSIVE trim(_)
trim(str) ==
  IF Len(str) > 0 /\ SubSeq(str, 1, 1) = " " THEN trim(SubSeq(str, 2, Len(str)))
  ELSE IF Len(str) > 0 /\ SubSeq(str, Len(str), Len(str)) = " "
       THEN trim(SubSeq(str, 1, Len(str) - 1))
       ELSE str

\* Names an administrator submits: a listed one, a new one, the new one
\* with a blank in front, and none.
VariantNames == {"Beef", "Tofu", " Tofu", ""}

\* The id an insert gets: the next of the table's sequence (an id deleted
\* last is given again, which no handler can tell).
NextVariantId ==
  LET ids == {variant_options[i].id : i \in 1..Len(variant_options)}
  IN IF ids = {} THEN 1 ELSE 1 + CHOOSE m \in ids : \A n \in ids : n <= m

\* The row an insert adds.  The source shows no constraint on option_name;
\* a refusal by the database is an insert that fails.
VariantRow(option_name, display_order) ==
  [id |-> NextVariantId,
   option_name |-> option_name,
   is_active |-> TRUE,
   display_order |-> display_order]

\* POST /api/menu/variants up to its first query: .eq('option_name',
\* variant_name.trim()).single() yields a row only when exactly one row has
\* the name and the query succeeds.  A request that passes waits for its
\* further queries.
POST_menu_variants(variant_name, checkOk) ==
  /\ Len(variantRequests) < MaxRequests
  /\ IF variant_name = ""
     THEN /\ response' = Respond("POST /api/menu/variants", 400, <<>>, <<>>)
          /\ UNCHANGED variantRequests
     ELSE LET existing == SelectSeq(variant_options,
                            LAMBDA row : row.option_name = trim(variant_name))
          IN IF checkOk /\ Len(existing) = 1
             THEN /\ response' = Respond("POST /api/menu/variants", 400, <<>>, <<>>)
                  /\ UNCHANGED variantRequests
             ELSE /\ variantRequests' = Append(variantRequests, variant_name)
                  /\ UNCHANGED response
  /\ UNCHANGED <<dbVars, pageVars, libVars, variant_options, menu_items, shopVars,
                 flowVars>>

\* The largest display_order of the table, 0 for an empty table.
RECURSIVE MaxDisplayOrder(_)
MaxDisplayOrder(rows) ==
  IF rows = <<>> THEN 0
  ELSE LET rest == MaxDisplayOrder(Tail(rows))
       IN IF Head(rows).display_order > rest THEN Head(rows).display_order ELSE rest

\* The rest of a waiting request: the query for the largest display_order
\* (an error leaves nextOrder at 1) and the insert.
POST_menu_variants_insert(k, orderOk, insertOk) ==
  /\ k \in 1..Len(variantRequests)
  /\ NextVariantId <= MaxVariants
  /\ LET variant_name == variantRequests[k]
         nextOrder == (IF orderOk THEN MaxDisplayOrder(variant_options) ELSE 0) + 1
     IN /\ variantRequests' = SubSeq(variantRequests, 1, k - 1)
                                \o SubSeq(variantRequests, k + 1, Len(variantRequests))
        /\ IF insertOk
           THEN /\ variant_options' =
                     Append(variant_options, VariantRow(trim(variant_name), nextOrder))
                /\ response' = Respond("POST /api/menu/variants", 200, <<>>, <<>>)
           ELSE /\ response' = Respond("POST /api/menu/variants", 500, <<>>, <<>>)
                /\ UNCHANGED variant_options
  /\ UNCHANGED <<dbVars, pageVars, libVars, menu_items, shopVars, flowVars>>

\* The menu-simple endpoint, action add_protein: the insert, nothing before.
add_protein(option_name, insertOk) ==
  /\ NextVariantId <= MaxVariants
  /\ IF insertOk
     THEN /\ variant_options' = Append(variant_options, VariantRow(option_name, 999))
          /\ response' = Respond("POST /api/menu-simple", 200, <<>>, <<>>)
     ELSE /\ response' = Respond("POST /api/menu-simple", 500, <<>>, <<>>)
          /\ UNCHANGED variant_options
  /\ UNCHANGED <<dbVars, pageVars, libVars, menu_items, variantRequests, shopVars,
                 flowVars>>

\* The dashboard's addProteinOption: a blank name returns; otherwise the
\* insert of the trimmed name, display_order left to the column's default.
addProteinOption(newProteinName, insertOk) ==
  /\ trim(newProteinName) # ""
  /\ NextVariantId <= MaxVariants
  /\ variant_options' = IF insertOk
                        THEN Append(variant_options, VariantRow(trim(newProteinName), 0))
                        ELSE variant_options
  /\ UNCHANGED <<dbVars, response, pageVars, libVars, menu_items, variantRequests,
                 shopVars, flowVars>>

\* Action toggle_protein: .update({is_active}).eq('id', protein_id).single().
toggle_protein(protein_id, is_active, dbOk) ==
  /\ IF dbOk /\ \E i \in 1..Len(variant_options) : variant_options[i].id = protein_id
     THEN /\ variant_options' =
               [i \in 1..Len(variant_options) |->
                  IF variant_options[i].id = protein_id
                  THEN [variant_options[i] EXCEPT !.is_active = is_active]
                  ELSE variant_options[i]]
          /\ response' = Respond("POST /api/menu-simple", 200, <<>>, <<>>)
     ELSE /\ response' = Respond("POST /api/menu-simple", 500, <<>>, <<>>)
          /\ UNCHANGED variant_options
  /\ UNCHANGED <<dbVars, pageVars, libVars, menu_items, variantRequests, shopVars,
                 flowVars>>

\* DELETE /api/menu/variants with a rewrite of the order items' protein.
DELETE_menu_variants_cascade(variant_name, dbOk) ==
  /\ variant_name # "" /\ dbOk
  /\ variant_options' = SelectSeq(variant_options,
                                  LAMBDA row : row.option_name # variant_name)
  /\ order_items' = [i \in 1..Len(order_items) |->
                       IF order_items[i].protein = variant_name
                       THEN [order_items[i] EXCEPT !.protein = "Standard"]
                       ELSE order_items[i]]
  /\ response' = Respond("DELETE /api/menu/variants", 200, <<>>, <<>>)
  /\ UNCHANGED <<hasIdColumn, orders, pageVars, libVars, menu_items, variantRequests,
                 shopVars, flowVars>>

\* DELETE /api/menu/variants: .delete().eq('option_name', variant_name) on
\* table variant_options, and nothing else.
DELETE_menu_variants(variant_name, dbOk) ==
  /\ IF variant_name = ""
     THEN /\ response' = Respond("DELETE /api/menu/variants", 400, <<>>, <<>>)
          /\ UNCHANGED variant_options
     ELSE IF ~dbOk
     THEN /\ response' = Respond("DELETE /api/menu/variants", 500, <<>>, <<>>)
          /\ UNCHANGED variant_options
     ELSE /\ variant_options' = SelectSeq(variant_options,
                                          LAMBDA row : row.option_name # variant_name)
          /\ response' = Respond("DELETE /api/menu/variants", 200, <<>>, <<>>)
  /\ UNCHANGED <<dbVars, pageVars, libVars, menu_items, variantRequests, shopVars,
                 flowVars>>

\* The dashboard's deleteProteinOption (confirmed by the user):
\* .delete().eq('id', id) on table variant_options.
deleteProteinOption(id, dbOk) ==
  /\ variant_options' = IF dbOk
                        THEN SelectSeq(variant_options, LAMBDA row : row.id # id)
                        ELSE variant_options
  /\ UNCHANGED <<dbVars, response, pageVars, libVars, menu_items, variantRequests,
                 shopVars, flowVars>>

\* ------------------------------------------------------------- menu items
\* A price or availability of a request body, or the field left out.
Given(value) == [kind |-> "given", value |-> value]

\* PUT /api/menu-items: the fields given are written to the row of this id;
\* .single() makes a missing row an error.  id 0 stands for a missing id.
PUT_menu_items(id, price, is_available, dbOk) ==
  /\ IF id = 0
     THEN /\ response' = Respond("PUT /api/menu-items", 400, <<>>, <<>>)
          /\ UNCHANGED menu_items
     ELSE IF ~dbOk \/ ~\E i \in 1..Len(menu_items) : menu_items[i].id = id
     THEN /\ response' = Respond("PUT /api/menu-items", 500, <<>>, <<>>)
          /\ UNCHANGED menu_items
     ELSE /\ menu_items' =
               [i \in 1..Len(menu_items) |->
                  IF menu_items[i].id # id THEN menu_items[i]
                  ELSE [menu_items[i] EXCEPT
                          !.price = IF price = JsUndefined THEN @ ELSE price.value,
                          !.is_available = IF is_available = JsUndefined
                                           THEN @ ELSE is_available.value]]
          /\ response' = Respond("PUT /api/menu-items", 200, <<>>, <<>>)
  /\ UNCHANGED <<dbVars, pageVars, libVars, variant_options, variantRequests,
                 shopVars, flowVars>>

\* DELETE /api/menu-items: .delete().eq('id', parseInt(id)); "" is a missing id.
DELETE_menu_items(id, dbOk) ==
  /\ IF id = ""
     THEN /\ response' = Respond("DELETE /api/menu-items", 400, <<>>, <<>>)
          /\ UNCHANGED menu_items
     ELSE IF ~dbOk
     THEN /\ response' = Respond("DELETE /api/menu-items", 500, <<>>, <<>>)
          /\ UNCHANGED menu_items
     ELSE /\ menu_items' = SelectSeq(menu_items, LAMBDA row : ~EqInt(row.id, parseInt(id)))
          /\ response' = Respond("DELETE /api/menu-items", 200, <<>>, <<>>)
  /\ UNCHANGED <<dbVars, pageVars, libVars, variant_options, variantRequests,
                 shopVars, flowVars>>

\* ----------------------------------------------------------------- catalog
\* Administrators add and remove variant options, also at the same time.
NextVariants ==
  \/ \E name \in VariantNames, checkOk \in BOOLEAN : POST_menu_variants(name, checkOk)
  \/ \E k \in 1..MaxRequests, orderOk \in BOOLEAN, insertOk \in BOOLEAN :
       POST_menu_variants_insert(k, orderOk, insertOk)
  \/ \E name \in VariantNames, insertOk \in BOOLEAN : add_protein(name, insertOk)
  \/ \E name \in VariantNames, insertOk \in BOOLEAN : addProteinOption(name, insertOk)
  \/ \E name \in VariantNames, dbOk \in BOOLEAN : DELETE_menu_variants(name, dbOk)
  \/ \E id \in 1..MaxVariants, dbOk \in BOOLEAN : deleteProteinOption(id, dbOk)

SpecVariants == Init /\ [][NextVariants]_vars

\* An order is placed while administrators change the variant list and the
\* menu's rows.
NextCatalog ==
  \/ /\ Len(orders) < MaxOrders
     /\ \E orderOk \in BOOLEAN, itemsOk \in BOOLEAN :
          POST_orders(ExampleBody, MinCode4, orderOk, itemsOk)
  \/ \E insertOk \in BOOLEAN : add_protein("Tofu", insertOk)
  \/ \E id \in 1..MaxVariants, dbOk \in BOOLEAN : toggle_protein(id, FALSE, dbOk)
  \/ \E name \in {"Beef", ""}, dbOk \in BOOLEAN : DELETE_menu_variants(name, dbOk)
  \/ \E id \in 0..1, price \in {Given(30000), JsUndefined}, dbOk \in BOOLEAN :
       PUT_menu_items(id, price, JsUndefined, dbOk)
  \/ \E id \in {"", "1"}, dbOk \in BOOLEAN : DELETE_menu_items(id, dbOk)

SpecCatalog == Init /\ [][NextCatalog]_vars

\* ------------------------------------------------------------------ C15
\* C15: no two rows of the global variant list have the same name, after
\* any additions through the three add paths, concurrent ones included.
C15_VariantNamesUnique ==
  \A i, j \in 1..Len(variant_options) :
    i # j => variant_options[i].option_name # variant_options[j].option_name

\* ------------------------------------------------------------------ C16
\* C16: every order-item row references exactly one existing order.
C16_ItemsReferenceOneOrder ==
  \A i \in 1..Len(order_items) :
    Cardinality({j \in 1..Len(orders) :
                   orders[j].order_number = order_items[i].order_id}) = 1

\* A creation has written two item rows.
C16_Witness ==
  /\ response.op = "POST /api/orders" /\ response.status = 200
  /\ Len(order_items) = 2

\* ------------------------------------------------------------------ C17
\* C17: every order row inserted by POST /api/orders has status 'pending',
\* also when the body supplies a status.
C17_InsertedStatusIsPending ==
  [][\A i \in (Len(orders) + 1)..Len(orders') : orders'[i].status = "pending"]_vars

\* The order of a body that supplied a status (its item has no variant) is
\* stored as pending.
C17_Witness ==
  \E i \in 1..Len(orders), k \in 1..Len(order_items) :
    /\ order_items[k].order_id = orders[i].order_number
    /\ order_items[k].protein = "Standard"
    /\ orders[i].status = "pending"

C19_NameSplitBySuffix ==
  [][(orders' # orders /\ response'.status = 200)
          => \A body \in ListBodies, code \in Codes4 :
            POST_orders(body, code, TRUE, TRUE)
              => \A i \in 1..Len(body.items.list) :
                   LET name == body.items.list[i].name
                       row == order_items'[Len(order_items) + i]
                       endsWith(suffix) ==
                         /\ Len(name) >= Len(suffix)
                         /\ SubSeq(name, Len(name) - Len(suffix) + 1, Len(name)) = suffix
                       without(suffix) == SubSeq(name, 1, Len(name) - Len(suffix))
                   IN IF endsWith(" Regular")
                      THEN row.base_name = without(" Regular") /\ row.size_code = "R"
                      ELSE IF endsWith(" Large")
                      THEN row.base_name = without(" Large") /\ row.size_code = "L"
                      ELSE row.base_name = name /\ row.size_code = ""]_vars

\* ------------------------------------------------------------------ C20
\* C20: no step (removing, adding or hiding a variant option, updating or
\* deleting a menu item) changes the protein, unit_price or total_amount of
\* an order-item row that exists.
C20_CatalogLeavesOrderItems ==
  [][\A i \in 1..Len(order_items) :
       /\ i <= Len(order_items')
       /\ order_items'[i].protein = order_items[i].protein
       /\ order_items'[i].unit_price = order_items[i].unit_price
       /\ order_items'[i].total_amount = order_items[i].total_amount]_vars

\* An order item keeps 'Beef' at 28000 after 'Beef' was removed from the
\* variant list, another option was added and the menu item was repriced.
C20_Witness ==
  /\ \E k \in 1..Len(order_items) :
       /\ order_items[k].protein = "Beef"
       /\ order_items[k].unit_price = 28000
       /\ \E m \in 1..Len(menu_items) :
            /\ menu_items[m].id = order_items[k].menu_item_id
            /\ menu_items[m].price # order_items[k].unit_price
  /\ \A v \in 1..Len(variant_options) : variant_options[v].option_name # "Beef"
  /\ \E v \in 1..Len(variant_options) : variant_options[v].option_name = "Tofu"

\* ------------------------------------------------- bearer-checked handlers
\* The test the four handlers make first.
Unauthorized(authHeader) == authHeader = "" \/ ~startsWith(authHeader, "Bearer ")

\* GET /api/orders: select('*').order('created_at', {ascending: false}).
GET_orders(authHeader, dbOk) ==
  /\ response' = IF Unauthorized(authHeader)
                 THEN Respond("GET /api/orders", 401, <<>>, <<>>)
                 ELSE IF ~dbOk THEN Respond("GET /api/orders", 500, <<>>, <<>>)
                 ELSE Respond("GET /api/orders", 200, Reverse(orders), <<>>)
  /\ UNCHANGED <<dbVars, pageVars, libVars, storeVars>>

\* PUT /api/menu: the rows of the name's base name and size get the price;
\* id 0 and name "" stand for missing fields.  A name without 'Large' is
\* taken as size R.
PUT_menu(authHeader, id, name, price, dbOk) ==
  /\ IF Unauthorized(authHeader)
     THEN /\ response' = Respond("PUT /api/menu", 401, <<>>, <<>>)
          /\ UNCHANGED menu_items
     ELSE IF id = 0 \/ name = "" \/ price = JsUndefined
     THEN /\ response' = Respond("PUT /api/menu", 400, <<>>, <<>>)
          /\ UNCHANGED menu_items
     ELSE IF ~dbOk
     THEN /\ response' = Respond("PUT /api/menu", 500, <<>>, <<>>)
          /\ UNCHANGED menu_items
     ELSE LET base == removeFirst(removeFirst(name, " Regular"), " Large")
              size == IF includes(name, "Large") THEN "L" ELSE "R"
          IN /\ menu_items' =
                  [i \in 1..Len(menu_items) |->
                     IF menu_items[i].base_name = base /\ menu_items[i].size_code = size
                     THEN [menu_items[i] EXCEPT !.price = price.value]
                     ELSE menu_items[i]]
             /\ response' = Respond("PUT /api/menu", 200, <<>>, <<>>)
  /\ UNCHANGED <<dbVars, pageVars, libVars, variant_options, variantRequests,
                 shopVars, flowVars>>

\* POST /api/shop-status: action toggle_shop calls rpc toggle_shop_status
\* with new_status: status === 'open'; the other actions write settings
\* that are not followed here.
POST_shop_status(authHeader, action, status, dbOk) ==
  /\ IF Unauthorized(authHeader)
     THEN /\ response' = Respond("POST /api/shop-status", 401, <<>>, <<>>)
          /\ UNCHANGED shop_status
     ELSE IF ~dbOk
     THEN /\ response' = Respond("POST /api/shop-status", 500, <<>>, <<>>)
          /\ UNCHANGED shop_status
     ELSE /\ shop_status' = IF action # "toggle_shop" THEN shop_status
                            ELSE IF status = "open" THEN "open" ELSE "closed"
          /\ response' = Respond("POST /api/shop-status", 200, <<>>, <<>>)
  /\ UNCHANGED <<dbVars, pageVars, libVars, catalogVars, flowVars>>

\* Requests with and without a bearer header reach the four handlers while
\* an order is placed.
NextAuth ==
  \/ /\ Len(orders) < MaxOrders
     /\ \E orderOk \in BOOLEAN, itemsOk \in BOOLEAN :
          POST_orders(ExampleBody, MinCode4, orderOk, itemsOk)
  \/ \E r \in PutRequests : PUT_order_tracking(r[1], r[2], r[3], r[4])
  \/ \E authHeader \in AuthHeaders, dbOk \in BOOLEAN : GET_orders(authHeader, dbOk)
  \/ \E authHeader \in AuthHeaders, id \in 0..1,
        name \in {"", "Montana BBQ Hamburger Large"},
        price \in {JsUndefined, Given(30000)}, dbOk \in BOOLEAN :
       PUT_menu(authHeader, id, name, price, dbOk)
  \/ \E authHeader \in AuthHeaders, action \in {"toggle_shop", "toggle_orders"},
        status \in {"open", "closed"}, dbOk \in BOOLEAN :
       POST_shop_status(authHeader, action, status, dbOk)

SpecAuth == Init /\ [][NextAuth]_vars

\* ------------------------------------------------------------------ C21
\* C21: List orders, Update menu item, Toggle shop status and Update order
\* status answer a request whose Authorization header does not start with
\* 'Bearer ' with 401, return no row and leave every table as it was.
C21_NoBearerNoAccess ==
  [][\/ /\ response'.status = 401
        /\ response'.orders = <<>> /\ response'.items = <<>>
        /\ UNCHANGED <<dbVars, catalogVars, shopVars>>
     \/ \A authHeader \in {"", "Basic t"}, dbOk \in BOOLEAN :
          /\ response'.op = "GET /api/orders" => ~GET_orders(authHeader, dbOk)
          /\ response'.op = "PUT /api/menu"
               => \A id \in 0..1, name \in {"", "Montana BBQ Hamburger Large"},
                     price \in {JsUndefined, Given(30000)} :
                    ~PUT_menu(authHeader, id, name, price, dbOk)
          /\ response'.op = "POST /api/shop-status"
               => \A action \in {"toggle_shop", "toggle_orders"},
                     status \in {"open", "closed"} :
                    ~POST_shop_status(authHeader, action, status, dbOk)
          /\ response'.op = "PUT /api/order-tracking"
               => \A n \in 1..MaxOrders, status \in RequestedStatuses :
                    ~PUT_order_tracking(authHeader, Uuid(n), status, dbOk)]_vars

\* A request to list the orders was refused while an order was stored.
C21_Witness ==
  /\ response.op = "GET /api/orders" /\ response.status = 401
  /\ orders # <<>>

\* ------------------------------------------------------------------ C22
\* C22: a request without a bearer credential to a menu-management endpoint
\* is rejected and changes no menu or variant row.  The handlers of
\* /api/menu-items, /api/menu-simple and /api/menu/variants read no header,
\* so each of their steps is also the step of a request without credential.
C22_MenuManagementAdminOnly ==
  [][response'.op \in {"PUT /api/menu-items", "DELETE /api/menu-items",
                       "POST /api/menu-simple", "DELETE /api/menu/variants"}
       => /\ response'.status \in {401, 403}
          /\ UNCHANGED <<menu_items, variant_options>>]_vars

\* ------------------------------------------------------------ TrackingDemo
\* What HybridOrderSystem.updateOrderStatus returns: true when the database
\* took the update; when it did not, or is not used, what
\* updateLocalOrderStatus returns, which is whether localStorage holds the
\* order.
HybridUpdateReturns(orderNumber, newStatus, dbOk) ==
  IF /\ hybrid.useSupabase
     /\ sanitizeOrderNumber(ToString(orderNumber)) # Null
     /\ newStatus \in LibraryStatuses
     /\ dbOk
  THEN TRUE
  ELSE orderNumber \in DOMAIN localOrders

\* TrackingDemo.updateOrderStatus: the hybrid system's update and, when it
\* returned true, TrackingSystem.updateOrderStatus; otherwise a line on the
\* console.  The promise resolves to nothing either way.
TrackingDemo_updateOrderStatus(orderNumber, status, dbOk) ==
  /\ hybrid.instance
  /\ UNCHANGED <<storeVars, hasIdColumn, order_items, response, pageCore, orderSystemVars,
                 subscribers, secureSub, hybrid, pollInterval, pollTicks,
                 subscription>>
  /\ IF /\ hybrid.useSupabase
        /\ sanitizeOrderNumber(ToString(orderNumber)) # Null
        /\ status \in LibraryStatuses
        /\ dbOk
     THEN LET hit == MatchingRows("order_number", orderNumber)
          IN /\ orders' = UpdateStatus("order_number", orderNumber, status)
             /\ IF Len(hit) > 0
                THEN Notify("UPDATE", [hit[1] EXCEPT !.status = status])
                ELSE UNCHANGED notified
             /\ UNCHANGED localOrders
     ELSE /\ localOrders' = IF orderNumber \in DOMAIN localOrders
                            THEN [localOrders EXCEPT ![orderNumber].status = status]
                            ELSE localOrders
          /\ UNCHANGED <<orders, notified>>
  /\ IF HybridUpdateReturns(orderNumber, status, dbOk)
        /\ orderNumber \in DOMAIN statusUpdates
     THEN StoreAndNotify(orderNumber, status)
     ELSE UNCHANGED <<statusUpdates, calls, notifications>>

\* An order is created through the hybrid system and followed locally; its
\* status is changed through TrackingDemo and through the dashboard.
NextDemo ==
  \/ HybridOrderSystem_getInstance
  \/ \E available \in BOOLEAN : checkSupabaseAvailability(available)
  \/ /\ NextOrderNumber <= MaxOrders
     /\ \E dbOk \in BOOLEAN :
          HybridOrderSystem_createOrder(NextOrderNumber, MinCode5,
                                        ExampleBody.items.list, 56000, dbOk)
  \/ TrackingSystem_initializeOrder(1, MinCode5)
  \/ subscribeToOrder(1, "tracking")
  \/ \E s \in SubStatuses, dbOk \in BOOLEAN : TrackingDemo_updateOrderStatus(1, s, dbOk)
  \/ DashMount
  \/ \E ordersOk \in BOOLEAN, itemsOk \in BOOLEAN : loadOrders(ordersOk, itemsOk)
  \/ \E n \in 1..MaxOrders, s \in DashboardOptions, dbOk \in BOOLEAN :
       updateOrderStatus(n, s, dbOk)

SpecDemo == Init /\ [][NextDemo]_vars

\* ------------------------------------------------------------------ C23
\* C23: when the database update of a status change fails, the dashboard
\* removes no order from its list and TrackingDemo.updateOrderStatus leaves
\* the status held by TrackingSystem unchanged.
C23_FailedUpdateLeavesLocalState ==
  [][/\ \A n \in 1..MaxOrders, s \in DashboardOptions :
          updateOrderStatus(n, s, FALSE) => dashOrders' = dashOrders
     /\ \A s \in SubStatuses :
          (hybrid.useSupabase /\ TrackingDemo_updateOrderStatus(1, s, FALSE))
            => statusUpdates' = statusUpdates]_vars

\* ------------------------------------------------------------------ C24
\* C24: PUT /api/menu-items answers 400 and writes no row both for a request
\* without the id and for a request with the id and none of the mutable
\* fields.
C24_UpdateNeedsIdAndAField ==
  [][\A dbOk \in BOOLEAN :
       /\ PUT_menu_items(0, Given(30000), JsUndefined, dbOk)
            => response'.status = 400 /\ UNCHANGED menu_items
       /\ \A id \in 1..1 :
            PUT_menu_items(id, JsUndefined, JsUndefined, dbOk)
              => response'.status = 400 /\ UNCHANGED menu_items]_vars

\* ------------------------------------------------ the limiter, called
\* SecurityManager.checkOrderCreationRateLimit(clientId) at time now: a
\* refusal returns before anything is stored; otherwise the recent attempts
\* and the current one replace the client's list.
SecurityManager_checkOrderCreationRateLimit(clientId) ==
  /\ Len(limiterCalls) < MaxLimiterCalls
  /\ orderCreationAttempts' =
       IF checkOrderCreationRateLimit(clientId)
       THEN (clientId :> Append(recentAttempts(clientId), now)) @@ orderCreationAttempts
       ELSE orderCreationAttempts
  /\ limiterCalls' = Append(limiterCalls,
                            [clientId |-> clientId, time |-> now,
                             returned |-> checkOrderCreationRateLimit(clientId)])
  /\ UNCHANGED <<dbVars, response, pageVars, libVars, catalogVars, shopVars, now, page,
                 menuVars, sessionOrderData, summaryVars, orderNumberView, placedAt>>

\* Clients call the limiter as time passes.
NextLimiter ==
  \/ \E clientId \in ClientTokens : SecurityManager_checkOrderCreationRateLimit(clientId)
  \/ Tick

SpecLimiter == Init /\ [][NextLimiter]_vars

\* The accepted calls of the client of call i, among the first i - 1 calls,
\* that lie less than windowMs before call i.
AcceptedBefore(i) ==
  {j \in 1..(i - 1) : /\ limiterCalls[j].clientId = limiterCalls[i].clientId
                      /\ limiterCalls[j].returned
                      /\ limiterCalls[i].time - limiterCalls[j].time < windowMs}

\* ------------------------------------------------------------------ C26
\* C26: a call of checkOrderCreationRateLimit returns true exactly when
\* fewer than maxAttempts accepted calls of the same client lie within the
\* windowMs before it, so that at most maxAttempts calls of a client are
\* accepted within any window and the calls of another client do not
\* count; a refused call stores nothing.
C26_SlidingWindowPerClient ==
  /\ [](\A i \in 1..Len(limiterCalls) :
          /\ limiterCalls[i].returned = (Cardinality(AcceptedBefore(i)) < maxAttempts)
          /\ limiterCalls[i].returned => Cardinality(AcceptedBefore(i)) + 1 <= maxAttempts)
  /\ [][\A clientId \in ClientTokens :
          SecurityManager_checkOrderCreationRateLimit(clientId)
            => /\ ~limiterCalls'[Len(limiterCalls')].returned
                    => orderCreationAttempts' = orderCreationAttempts
               /\ \A other \in ClientTokens \ {clientId} :
                    (other \in DOMAIN orderCreationAttempts')
                      = (other \in DOMAIN orderCreationAttempts)
                    /\ (other \in DOMAIN orderCreationAttempts
                          => orderCreationAttempts'[other] = orderCreationAttempts[other])]_vars

\* A client refused after maxAttempts accepted calls is accepted again once
\* the window has passed, while the other client was accepted in between.
C26_Witness ==
  \E i, j, k \in 1..Len(limiterCalls) :
    /\ i < j /\ j < k
    /\ limiterCalls[i].clientId = limiterCalls[k].clientId
    /\ ~limiterCalls[i].returned
    /\ limiterCalls[j].clientId # limiterCalls[i].clientId
    /\ limiterCalls[j].returned
    /\ limiterCalls[k].returned

\* ------------------------------------------- TrackingSystem, notifying
\* Orders are initialised and updated while callbacks subscribe to them and
\* unsubscribe; each of two callbacks subscribes once.
NextNotify ==
  \/ \E n \in 1..MaxTracked : TrackingSystem_initializeOrder(n, MinCode5)
  \/ \E n \in 1..MaxTracked, cb \in {"tracking", "hybrid"} : subscribeToOrder(n, cb)
  \/ \E n \in 1..MaxTracked, cb \in {"tracking", "hybrid"} :
       TrackingSystem_unsubscribe(n, cb)
  \/ \E n \in 1..MaxTracked, s \in SubStatuses : TrackingSystem_updateOrderStatus(n, s)

SpecNotify == Init /\ [][NextNotify]_vars

C28_IssuedCodesPassValidation ==
  \A i \in 1..Len(orders) :
    sanitizeVerificationNumber(ToString(orders[i].verification_number)) # Null

\* ------------------------------------------- menu names, there and back
\* POST /api/menu-items: base_name, protein and price are required; the row
\* is inserted with size_code || ''.
POST_menu_items(base_name, size_code, protein, price, dbOk) ==
  /\ Len(menu_items) < MaxMenuRows
  /\ IF base_name = "" \/ protein = "" \/ price = 0
     THEN /\ response' = Respond("POST /api/menu-items", 400, <<>>, <<>>)
          /\ UNCHANGED menu_items
     ELSE IF ~dbOk
     THEN /\ response' = Respond("POST /api/menu-items", 500, <<>>, <<>>)
          /\ UNCHANGED menu_items
     ELSE /\ menu_items' = Append(menu_items,
                                  [id |-> Len(menu_items) + 1,
                                   base_name |-> base_name,
                                   size_code |-> size_code,
                                   protein |-> protein,
                                   price |-> price,
                                   is_available |-> TRUE])
          /\ response' = Respond("POST /api/menu-items", 200, <<>>, <<>>)
  /\ UNCHANGED <<dbVars, pageVars, libVars, variant_options, variantRequests,
                 shopVars, flowVars>>

\* GET /api/menu: the name of a menu row,
\* `${base_name} ${size_code === 'R' ? 'Regular' : 'Large'}`.
MenuDisplayName(base_name, size_code) ==
  base_name \o " " \o (IF size_code = "R" THEN "Regular" ELSE "Large")

\* The body of an order of one item as GET /api/menu lists a row.
MenuOrderBody(row) ==
  [items |-> [kind |-> "list",
              list |-> << [id |-> row.id,
                           name |-> MenuDisplayName(row.base_name, row.size_code),
                           price |-> row.price, quantity |-> 1,
                           variant |-> row.protein] >>],
   totalAmount |-> row.price]

\* Rows are added to the menu and items are ordered under the names the
\* menu lists them with.
NextMenuNames ==
  \/ \E base_name \in {"Fries", ""}, size_code \in {"R", "L", ""}, dbOk \in BOOLEAN :
       POST_menu_items(base_name, size_code, "Beef", 12000, dbOk)
  \/ /\ Len(orders) < MaxPlaced
     /\ \E i \in 1..Len(menu_items), orderOk \in BOOLEAN, itemsOk \in BOOLEAN :
          POST_orders(MenuOrderBody(menu_items[i]), MinCode4, orderOk, itemsOk)

SpecMenuNames == Init /\ [][NextMenuNames]_vars

\* ------------------------------------------------------------------ C29
\* C29: an item ordered under the name GET /api/menu gives a menu row is
\* stored with the row's base name and size code.
C29_SizeCodeRoundTrip ==
  [][\A i \in 1..Len(menu_items), orderOk \in BOOLEAN, itemsOk \in BOOLEAN :
       (/\ Len(order_items') > Len(order_items)
        /\ POST_orders(MenuOrderBody(menu_items[i]), MinCode4, orderOk, itemsOk))
         => /\ order_items'[Len(order_items')].base_name = menu_items[i].base_name
            /\ order_items'[Len(order_items')].size_code = menu_items[i].size_code]_vars

\* -------------------------------------- OrderSummaryPage, step by step
\* An activation of the button, which is possible while the button as
\* rendered is not disabled: handlePlaceOrder returns for an empty list,
\* otherwise it sets isPlacingOrder and sends the request.
handlePlaceOrder_send ==
  /\ page = "summary"
  /\ ~summaryPlacing.disabled
  /\ Len(summaryItems) > 0
  /\ Len(orders) + Len(summaryPlacing.pending) < MaxPlaced
  /\ summaryPlacing' = [summaryPlacing EXCEPT !.isPlacingOrder = TRUE,
                                              !.pending = Append(@, orderData)]
  /\ UNCHANGED <<dbVars, response, pageVars, libVars, catalogVars, shopVars, now, page,
                 menuVars, sessionOrderData, summaryItems, summaryTotal, limiterVars,
                 placedAt, limiterCalls>>

\* The component renders: disabled={isPlacingOrder}.
OrderSummaryPage_render ==
  /\ page = "summary"
  /\ summaryPlacing.disabled # summaryPlacing.isPlacingOrder
  /\ summaryPlacing' = [summaryPlacing EXCEPT !.disabled = summaryPlacing.isPlacingOrder]
  /\ UNCHANGED <<dbVars, response, pageVars, libVars, catalogVars, shopVars, now, page,
                 menuVars, sessionOrderData, summaryItems, summaryTotal, limiterVars,
                 placedAt, limiterCalls>>

\* A request is handled and answered.  With an order in the answer the
\* stored basket is removed and the order-number page is opened; otherwise
\* the catch block resets isPlacingOrder.
handlePlaceOrder_return(code, orderOk, itemsOk) ==
  /\ summaryPlacing.pending # <<>>
  /\ POST(Head(summaryPlacing.pending), code, orderOk, itemsOk)
  /\ placedAt' = IF orders' # orders THEN Append(placedAt, now) ELSE placedAt
  /\ IF response'.status = 200
     THEN /\ sessionOrderData' = <<>>
          /\ page' = "order-number"
          /\ orderNumberView' = "mounting"
          /\ summaryItems' = <<>>
          /\ summaryTotal' = 0
          /\ summaryPlacing' = [NotPlacing EXCEPT !.pending = Tail(summaryPlacing.pending)]
     ELSE /\ summaryPlacing' =
               [summaryPlacing EXCEPT !.isPlacingOrder = FALSE, !.pending = Tail(@)]
          /\ UNCHANGED <<sessionOrderData, page, orderNumberView, summaryItems,
                         summaryTotal>>
  /\ UNCHANGED <<catalogVars, shopVars, now, menuVars, orderCreationAttempts,
                 limiterCalls>>

\* One customer fills a basket and places it.
NextPlaceOnce ==
  \/ MenuMount
  \/ \E rpcOk \in BOOLEAN : loadShopStatus(rpcOk)
  \/ loadMenuItems
  \/ handleAddToCart(FirstOffer)
  \/ MenuPage_handlePlaceOrder
  \/ OrderSummaryEffect
  \/ handlePlaceOrder_send
  \/ OrderSummaryPage_render
  \/ \E orderOk \in BOOLEAN, itemsOk \in BOOLEAN :
       handlePlaceOrder_return(MinCode4, orderOk, itemsOk)

SpecPlaceOnce == Init /\ [][NextPlaceOnce]_vars

\* ------------------------------------------------------------------ C30
\* C30: at most one create-order request of the summary page is pending at
\* any time.
C30_OneRequestPerBasket == Len(summaryPlacing.pending) <= 1

\* ------------------------------------- the tracking view, step by step
\* fetchOrderStatus up to the call of subscribe(): the query's answer is
\* shown; subscribe() returns at once and the channel joins later.
fetchOrderStatus_query(dbOk) ==
  /\ viewFetch = "pending"
  /\ UNCHANGED <<storeVars, dbVars, response, dashVars, viewPhase, viewOrderNumber,
                 viewVerification, viewChannel, codVars, libVars>>
  /\ LET hit == SelectSeq(orders, LAMBDA row : row.order_number = viewOrderNumber)
     IN IF ~dbOk \/ Len(hit) # 1
        THEN /\ trackingData' = IF viewPhase = "mounted"
                                THEN <<FallbackTracking>> ELSE trackingData
             /\ currentStatus' = IF viewPhase = "mounted"
                                 THEN "waiting" ELSE currentStatus
             /\ viewFetch' = "done"
             /\ UNCHANGED viewRedirects
        ELSE LET fetched == hit[1]
             IN /\ trackingData' = IF viewPhase = "mounted"
                                   THEN <<TrackingOf(fetched)>> ELSE trackingData
                /\ currentStatus' = IF viewPhase = "mounted"
                                    THEN fetched.status ELSE currentStatus
                /\ viewRedirects' =
                     IF fetched.status \in {"collected", "completed"}
                     THEN ScheduleRedirect(viewRedirects)
                     ELSE viewRedirects
                /\ viewFetch' = "joining"

\* The channel order_<n> has joined: changes committed from now on are
\* delivered to its handler.
ViewChannelJoined ==
  /\ viewFetch = "joining"
  /\ viewFetch' = "done"
  /\ viewChannel' = TRUE
  /\ UNCHANGED <<storeVars, dbVars, response, dashVars, viewPhase, viewOrderNumber,
                 viewVerification, viewLive, codVars, libVars>>

\* An order is placed and its status changed while a customer's view of it
\* is set up.
NextLive ==
  \/ /\ Len(orders) < MaxOrders
     /\ \E orderOk \in BOOLEAN, itemsOk \in BOOLEAN :
          POST_orders(ExampleBody, MinCode4, orderOk, itemsOk)
  \/ \E n \in 1..MaxOrders, s \in LibraryStatuses, dbOk \in BOOLEAN :
       SupabaseOrderManager_updateOrderStatus(n, s, dbOk)
  \/ \E n \in TrackingParams(1..MaxOrders), v \in TrackingParams(Codes4) :
       ViewMount(n, v)
  \/ \E dbOk \in BOOLEAN : fetchOrderStatus_query(dbOk)
  \/ ViewChannelJoined
  \/ ViewTeardown

\* The query is answered and the channel joins in the end.
SpecLive ==
  /\ Init /\ [][NextLive]_vars
  /\ WF_vars(\E dbOk \in BOOLEAN : fetchOrderStatus_query(dbOk))
  /\ WF_vars(ViewChannelJoined)

\* ------------------------------------------------------------------ C25
\* C25: a status the order has while its tracking view is mounted is shown
\* by the view in the end, unless the view is torn down or the status
\* changed again before.
C25_PersistedStatusDisplayed ==
  \A s \in LibraryStatuses :
    (/\ viewPhase = "mounted" /\ viewFetch # "idle"
     /\ \E i \in 1..Len(orders) :
          orders[i].order_number = viewOrderNumber /\ orders[i].status = s)
      ~> (\/ currentStatus = s
          \/ viewPhase # "mounted"
          \/ ~\E i \in 1..Len(orders) :
               orders[i].order_number = viewOrderNumber /\ orders[i].status = s)

====
